---- MODULE Spec2Model ----
(***************************************************************************)
(* FileAccessMonitor (src/FileAccessMonitor.js, kept in src/unnamed/       *)
(* part_001): the detection engine of InsightMint.                         *)
(*                                                                         *)
(* The engine is an EventEmitter driven by one single-threaded event loop. *)
(* Every action below is one turn of that loop: a call of a public method  *)
(* (startAdvancedMonitoring, stop), one tick of an interval timer, one     *)
(* directory-watch callback, one settle-delay timeout, or the completion   *)
(* callback of one external PowerShell command.                            *)
(*                                                                         *)
(* Strings the code inspects character by character (command lines, window *)
(* titles, file names) are sequences of one-character strings; Join turns  *)
(* them into TLA+ strings where the code only stores or compares them.     *)
(*                                                                         *)
(* Three further components are modelled beside the engine, each with its  *)
(* own variables and specification: the older FileAccessMonitor of         *)
(* src/main.js, processFile and checkAPIHealth of the application's main   *)
(* module (src/unnamed/part_005), and the Logger of part_001.              *)
(***************************************************************************)
EXTENDS Integers, Sequences, FiniteSets, Bags, TLC

(***************************************************************************)
(* Bounds of the model.                                                    *)
(***************************************************************************)
\* Largest number of external commands and settle-delay timeouts in flight.
MaxInFlight == 2
\* Largest number of cleanup periods the clock advances.
MaxTicks == 3
\* Largest number of records in one poll batch.
MaxBatch == 2
\* Number of candidate watch directories that may exist on disk.
MaxDirs == 1
\* Largest number of interval timers scheduled in the event loop.
MaxTimers == 5
\* Largest number of watch handles left open without being in fileWatchers.
MaxOrphans == 1
\* Largest number of timer handles the older monitor of main.js is given.
MaxHandles == 6
\* Largest number of processFile and checkAPIHealth calls awaiting a response.
MaxCalls == 2
\* Largest options.maxFiles a Logger is constructed with.
MaxMaxFiles == 4
\* Largest number of times a log file is moved to index 1.
MaxRotations == 4
\* Largest number of lines a log file holds.
MaxLogLines == 3

(***************************************************************************)
(* Program constants.                                                      *)
(***************************************************************************)
\* options.maxProcessAge default (ms)
DefaultMaxProcessAge == 300000
\* period of the cleanup interval (ms)
CleanupPeriod == 30000
\* recency window of the recent-items poll (ms)
RecentWindow == 10000
\* maxSize of processFile: 50 * 1024 * 1024 bytes
MaxUploadSize == 52428800
\* options.maxFiles default of Logger
DefaultMaxFiles == 5
\* options.maxFileSize of Logger, with sizes counted in log lines instead of
\* bytes: a file that holds more lines than this is rotated at the next write
maxFileSize == 1

\* options.targetExtensions
targetExtensions == {".pdf", ".doc", ".docx"}

\* this.readerApps
readerApps ==
    [n \in {"AcroRd32.exe", "Acrobat.exe", "AcroRd32", "Acrobat", "WINWORD.EXE",
            "WINWORD", "chrome.exe", "chrome", "firefox.exe", "firefox",
            "msedge.exe", "msedge", "FoxitReader.exe", "SumatraPDF.exe",
            "POWERPNT.EXE", "EXCEL.EXE", "notepad.exe", "Code.exe"} |->
        CASE n \in {"AcroRd32.exe", "AcroRd32"} -> "Adobe Acrobat Reader"
          [] n \in {"Acrobat.exe", "Acrobat"} -> "Adobe Acrobat"
          [] n \in {"WINWORD.EXE", "WINWORD"} -> "Microsoft Word"
          [] n \in {"chrome.exe", "chrome"} -> "Google Chrome"
          [] n \in {"firefox.exe", "firefox"} -> "Mozilla Firefox"
          [] n \in {"msedge.exe", "msedge"} -> "Microsoft Edge"
          [] n = "FoxitReader.exe" -> "Foxit Reader"
          [] n = "SumatraPDF.exe" -> "SumatraPDF"
          [] n = "POWERPNT.EXE" -> "Microsoft PowerPoint"
          [] n = "EXCEL.EXE" -> "Microsoft Excel"
          [] n = "notepad.exe" -> "Notepad"
          [] n = "Code.exe" -> "Visual Studio Code"]

\* readerApps is an object literal: besides its own keys a property read finds
\* what the literal inherits from Object.prototype
ObjectPrototype ==
    {"constructor", "toString", "toLocaleString", "valueOf", "hasOwnProperty",
     "isPrototypeOf", "propertyIsEnumerable", "__proto__", "__defineGetter__",
     "__defineSetter__", "__lookupGetter__", "__lookupSetter__"}

\* this.readerApps[name]: the own label, else the inherited member (a function
\* or object, written here by its qualified name), else undefined ("")
Lookup(name) ==
    IF name \in DOMAIN readerApps THEN readerApps[name]
    ELSE IF name \in ObjectPrototype THEN "Object.prototype." \o name
    ELSE ""

\* getReaderName(processName):
\* readerApps[processName] || readerApps[processName + '.exe'] || processName
getReaderName(processName) ==
    IF Lookup(processName) # "" THEN Lookup(processName)
    ELSE IF Lookup(processName \o ".exe") # "" THEN Lookup(processName \o ".exe")
    ELSE processName

(***************************************************************************)
(* Character-level helpers.                                                *)
(***************************************************************************)
RECURSIVE Join(_)
\* the string made of the characters of s
Join(s) == IF s = <<>> THEN "" ELSE Head(s) \o Join(Tail(s))

\* String.prototype.toLowerCase, one character
LowerChar(c) ==
    CASE c = "A" -> "a" [] c = "B" -> "b" [] c = "C" -> "c" [] c = "D" -> "d"
      [] c = "E" -> "e" [] c = "F" -> "f" [] c = "G" -> "g" [] c = "H" -> "h"
      [] c = "I" -> "i" [] c = "J" -> "j" [] c = "K" -> "k" [] c = "L" -> "l"
      [] c = "M" -> "m" [] c = "N" -> "n" [] c = "O" -> "o" [] c = "P" -> "p"
      [] c = "Q" -> "q" [] c = "R" -> "r" [] c = "S" -> "s" [] c = "T" -> "t"
      [] c = "U" -> "u" [] c = "V" -> "v" [] c = "W" -> "w" [] c = "X" -> "x"
      [] c = "Y" -> "y" [] c = "Z" -> "z" [] OTHER -> c

\* String.prototype.toLowerCase
ToLower(s) == [i \in 1..Len(s) |-> LowerChar(s[i])]

\* s[i..j] (1-based, inclusive); empty when j < i
Slice(s, i, j) == IF j < i THEN <<>> ELSE SubSeq(s, i, j)

\* the literal `lit` stands at position i of s, compared case-insensitively
\* (the regular expressions all carry the i flag)
LitAt(s, i, lit) ==
    /\ i >= 1
    /\ i + Len(lit) - 1 <= Len(s)
    /\ ToLower(SubSeq(s, i, i + Len(lit) - 1)) = lit

RECURSIVE RunLen(_, _, _)
\* number of consecutive characters of s from position i on that are not in excl
RunLen(s, i, excl) ==
    IF i > Len(s) \/ s[i] \in excl THEN 0 ELSE 1 + RunLen(s, i + 1, excl)

\* \.(pdf|doc|docx) at position j with nothing required after it: the first
\* alternative that fits wins, so "docx" is never tried once "doc" has matched.
ExtLenAt(s, j) ==
    IF LitAt(s, j, <<".", "p", "d", "f">>) \/ LitAt(s, j, <<".", "d", "o", "c">>)
    THEN 4 ELSE 0

\* \.(pdf|doc|docx)" at position j: the alternatives are tried in order and
\* the closing quote must follow; the length of the extension part, or 0.
QuotedExtLenAt(s, j) ==
    IF LitAt(s, j, <<".", "p", "d", "f", "\"">>) THEN 4
    ELSE IF LitAt(s, j, <<".", "d", "o", "c", "\"">>) THEN 4
    ELSE IF LitAt(s, j, <<".", "d", "o", "c", "x", "\"">>) THEN 5
    ELSE 0

RECURSIVE GreedyExt(_, _, _)
\* [class]*\.(pdf|doc|docx) matched from position i with the greedy star
\* currently holding k characters: backtrack k down to 0. Result: the length
\* of the whole match, or 0 when there is none.
GreedyExt(s, i, k) ==
    IF k < 0 THEN 0
    ELSE IF ExtLenAt(s, i + k) > 0 THEN k + ExtLenAt(s, i + k)
    ELSE GreedyExt(s, i, k - 1)

RECURSIVE GreedyQuotedExt(_, _, _)
\* the same for [^"]*\.(pdf|doc|docx)" ; the length excludes the closing quote
GreedyQuotedExt(s, i, k) ==
    IF k < 0 THEN 0
    ELSE IF QuotedExtLenAt(s, i + k) > 0 THEN k + QuotedExtLenAt(s, i + k)
    ELSE GreedyQuotedExt(s, i, k - 1)

WhiteSpace == {" ", "\t"}
Letters ==
    {"a", "b", "c", "d", "e", "f", "g", "h", "i", "j", "k", "l", "m", "n", "o",
     "p", "q", "r", "s", "t", "u", "v", "w", "x", "y", "z"}

\* One attempt of a pattern at start position i: [from, to] of capture group 1
\* and the position after the whole match, or none.
NoMatch == [found |-> FALSE, from |-> 0, to |-> 0, next |-> 0]

\* /"([^"]*\.(pdf|doc|docx))"/gi at position i
QuotedAt(s, i) ==
    IF i <= Len(s) /\ s[i] = "\""
    THEN LET n == GreedyQuotedExt(s, i + 1, RunLen(s, i + 1, {"\""}))
         IN  IF n > 0
             THEN [found |-> TRUE, from |-> i + 1, to |-> i + n, next |-> i + n + 2]
             ELSE NoMatch
    ELSE NoMatch

\* /([A-Za-z]:\\[^\s"]*\.(pdf|doc|docx))/gi at position i
DriveAt(s, i) ==
    IF /\ i + 2 <= Len(s)
       /\ LowerChar(s[i]) \in Letters
       /\ s[i + 1] = ":"
       /\ s[i + 2] = "\\"
    THEN LET n == GreedyExt(s, i + 3, RunLen(s, i + 3, WhiteSpace \cup {"\""}))
         IN  IF n > 0
             THEN [found |-> TRUE, from |-> i, to |-> i + 2 + n, next |-> i + 3 + n]
             ELSE NoMatch
    ELSE NoMatch

\* /([^\s"]*\.(pdf|doc|docx))/gi at position i
SimpleAt(s, i) ==
    LET n == GreedyExt(s, i, RunLen(s, i, WhiteSpace \cup {"\""}))
    IN  IF n > 0
        THEN [found |-> TRUE, from |-> i, to |-> i + n - 1, next |-> i + n]
        ELSE NoMatch

\* /([^\\\/]*\.(pdf|doc|docx))/gi at position i
TitleAt(s, i) ==
    LET n == GreedyExt(s, i, RunLen(s, i, {"\\", "/"}))
    IN  IF n > 0
        THEN [found |-> TRUE, from |-> i, to |-> i + n - 1, next |-> i + n]
        ELSE NoMatch

PatternAt(p, s, i) ==
    CASE p = "quoted" -> QuotedAt(s, i)
      [] p = "drive" -> DriveAt(s, i)
      [] p = "simple" -> SimpleAt(s, i)
      [] p = "title" -> TitleAt(s, i)

RECURSIVE ExecAll(_, _, _)
\* while ((match = regex.exec(s)) !== null): the captures of all matches of
\* pattern p in s, searching from position i (lastIndex + 1), left to right
ExecAll(p, s, i) ==
    IF i > Len(s) THEN <<>>
    ELSE LET m == PatternAt(p, s, i)
         IN  IF m.found
             THEN <<SubSeq(s, m.from, m.to)>> \o ExecAll(p, s, m.next)
             ELSE ExecAll(p, s, i + 1)

\* paths.includes(x)
Includes(list, x) == \E i \in 1..Len(list) : list[i] = x

RECURSIVE PushNew(_, _)
\* if (filePath && !paths.includes(filePath)) paths.push(filePath), for each
PushNew(paths, found) ==
    IF found = <<>> THEN paths
    ELSE PushNew(IF Head(found) # <<>> /\ ~Includes(paths, Head(found))
                 THEN Append(paths, Head(found)) ELSE paths,
                 Tail(found))

\* extractFilePaths(commandLine)
extractFilePaths(commandLine) ==
    IF commandLine = <<>> THEN <<>>
    ELSE PushNew(PushNew(PushNew(<<>>, ExecAll("quoted", commandLine, 1)),
                         ExecAll("drive", commandLine, 1)),
                 ExecAll("simple", commandLine, 1))

\* extractFileNamesFromTitle(title)
extractFileNamesFromTitle(title) == ExecAll("title", title, 1)

\* title contains name
Contains(title, name) ==
    \E i \in 1..(Len(title) - Len(name) + 1) :
      SubSeq(title, i, i + Len(name) - 1) = name

RECURSIVE LastIndexIn(_, _, _)
\* the largest position <= i of s holding a character of set cs, or 0
LastIndexIn(s, i, cs) ==
    IF i < 1 THEN 0 ELSE IF s[i] \in cs THEN i ELSE LastIndexIn(s, i - 1, cs)

\* path.basename(p) of the win32 path module for a path without trailing
\* separator: what follows the last \ or /
basename(p) == Slice(p, LastIndexIn(p, Len(p), {"\\", "/"}) + 1, Len(p))

\* path.extname(p): from the last dot of the base name on; empty when the
\* base name has no dot or only a leading one
extname(p) ==
    LET b == basename(p)
        d == LastIndexIn(b, Len(b), {"."})
    IN  IF d <= 1 THEN <<>> ELSE Slice(b, d, Len(b))

(***************************************************************************)
(* What the external sources can answer: the bounded sets the inputs of    *)
(* the actions are drawn from.                                             *)
(***************************************************************************)
\* "C:\a.docx" /p
CmdWord == <<"\"", "C", ":", "\\", "a", ".", "d", "o", "c", "x", "\"", " ", "/", "p">>
\* a.docx - Word
TitleWord == <<"a", ".", "d", "o", "c", "x", " ", "-", " ", "W", "o", "r", "d">>
\* C:\r.pdf
CmdAcro == <<"C", ":", "\\", "r", ".", "p", "d", "f">>
\* r.pdf
TitleAcro == <<"r", ".", "p", "d", "f">>
\* "C:\Doc.docx" /p
CmdDoc == <<"\"", "C", ":", "\\", "D", "o", "c", ".", "d", "o", "c", "x", "\"", " ", "/", "p">>
\* Doc.docx - Microsoft Word
TitleDoc == <<"D", "o", "c", ".", "d", "o", "c", "x", " ", "-", " ", "M", "i", "c", "r", "o", "s", "o", "f", "t", " ", "W", "o", "r", "d">>
\* "x" a.pdf"b c.pdf"
CmdGlued == <<"\"", "x", "\"", " ", "a", ".", "p", "d", "f", "\"", "b", " ", "c", ".", "p", "d", "f", "\"">>
\* Reader
TitlePlain == <<"R", "e", "a", "d", "e", "r">>

\* One record of the JSON a process query prints. The process scan and the
\* confirmation query name the fields Name, Id, Title (and CommandLine), the
\* handle scan ProcessName, ProcessId, WindowTitle, CommandLine; the code reads
\* either spelling (Name || ProcessName), so one record shape stands for both.
ProcWord == [Name |-> "WINWORD", Id |-> 1, Title |-> TitleWord, CommandLine |-> CmdWord]
ProcAcro == [Name |-> "AcroRd32", Id |-> 2, Title |-> TitleAcro, CommandLine |-> CmdAcro]
\* Word started on a quoted document with a switch, the document in its title
ProcDoc == [Name |-> "WINWORD.EXE", Id |-> 3, Title |-> TitleDoc, CommandLine |-> CmdDoc]
\* a browser started with one argument run into the next
ProcGlued == [Name |-> "chrome", Id |-> 4, Title |-> TitlePlain, CommandLine |-> CmdGlued]
\* a program whose image is called constructor.exe
ProcCtor == [Name |-> "constructor", Id |-> 5, Title |-> TitleAcro, CommandLine |-> CmdAcro]
\* Acrobat Reader showing r.pdf whose command line WMI does not disclose
ProcNoCmd == [Name |-> "AcroRd32", Id |-> 6, Title |-> TitleAcro, CommandLine |-> <<>>]
\* the records analyzeProcess can be handed
ProcSamples == {ProcWord, ProcAcro, ProcDoc, ProcGlued}

\* the candidate directories of setupDirectoryWatchers, in the code's order
WatchDirs == <<"Documents", "Desktop", "Downloads", "PublicDocuments">>
\* those of them that may exist on disk in this model
DirsOnDisk == {WatchDirs[i] : i \in 1..MaxDirs}

\* file names a directory watch may report
FileReport == <<"r", ".", "p", "d", "f">>
FileUpper == <<"R", ".", "P", "D", "F">>
FileNotes == <<"n", ".", "t", "x", "t">>
FileSamples == {FileReport, FileUpper, FileNotes}
EventTypes == {"change", "rename"}

\* entries of the recent-items folder: name and age (now - mtime) in ms
LnkReport == <<"r", ".", "p", "d", "f", ".", "l", "n", "k">>
LnkNotes == <<"n", ".", "t", "x", "t", ".", "l", "n", "k">>
IniFile == <<"d", ".", "i", "n", "i">>
RecentSamples ==
    {[file |-> LnkReport, age |-> 0, statFails |-> FALSE],
     [file |-> LnkReport, age |-> RecentWindow, statFails |-> FALSE],
     [file |-> LnkNotes, age |-> 0, statFails |-> TRUE],
     [file |-> IniFile, age |-> 0, statFails |-> FALSE]}

\* shortcut targets the resolution command may print
TargetReport == <<"C", ":", "\\", "r", ".", "p", "d", "f">>
TargetNotes == <<"C", ":", "\\", "n", ".", "t", "x", "t">>
TargetSamples == {TargetReport, TargetNotes, <<>>}


(***************************************************************************)
(* Events.                                                                 *)
(***************************************************************************)
\* the object handed to reportFileOpened
FileOpened(fileName, fullPath, extension, reader, processName, processId, windowTitle, source) ==
    [type |-> "fileOpened", fileName |-> fileName, fullPath |-> fullPath,
     extension |-> extension, readerApplication |-> reader,
     processName |-> processName, processId |-> processId,
     windowTitle |-> windowTitle, source |-> source, message |-> ""]

\* the object emitted by error(message, error)
ErrorEvent(message) ==
    [type |-> "error", fileName |-> "", fullPath |-> "", extension |-> "",
     readerApplication |-> "", processName |-> "", processId |-> "",
     windowTitle |-> "", source |-> "", message |-> message]

RECURSIVE CommandLineEvents(_, _)
\* filePaths.forEach of analyzeProcess
CommandLineEvents(processData, filePaths) ==
    IF filePaths = <<>> THEN <<>>
    ELSE LET filePath == Head(filePaths)
             fileExt == Join(ToLower(extname(filePath)))
         IN  (IF fileExt \in targetExtensions
              THEN <<FileOpened(Join(basename(filePath)), Join(filePath), fileExt,
                                getReaderName(processData.Name), processData.Name,
                                ToString(processData.Id),
                                IF processData.Title # <<>>
                                THEN Join(processData.Title) ELSE "N/A",
                                "Process Analysis")>>
              ELSE <<>>)
             \o CommandLineEvents(processData, Tail(filePaths))

RECURSIVE TitleEvents(_, _)
\* titleFiles.forEach of analyzeProcess
TitleEvents(processData, titleFiles) ==
    IF titleFiles = <<>> THEN <<>>
    ELSE LET fileName == Head(titleFiles)
             ext == Join(ToLower(extname(fileName)))
         IN  (IF ext \in targetExtensions
              THEN <<FileOpened(Join(fileName), "Unknown (from window title)", ext,
                                getReaderName(processData.Name), processData.Name,
                                ToString(processData.Id), Join(processData.Title),
                                "Window Title Analysis")>>
              ELSE <<>>)
             \o TitleEvents(processData, Tail(titleFiles))

\* analyzeProcess(processData): the events it reports, in order
analyzeProcess(processData) ==
    (IF processData.CommandLine # <<>>
     THEN CommandLineEvents(processData, extractFilePaths(processData.CommandLine))
     ELSE <<>>)
    \o (IF processData.Title # <<>>
        THEN TitleEvents(processData, extractFileNamesFromTitle(processData.Title))
        ELSE <<>>)

\* analyzeProcess on the sample records, evaluated once
AnalysisOf == [p \in ProcSamples |-> analyzeProcess(p)]

\* the dedup key of the process scan: `${process.Id}-${process.Name}`
ScanKey(process) == ToString(process.Id) \o "-" \o process.Name
\* the handle-scan key built like the process-scan key
HandleKeyAsScanKey(proc) == ScanKey(proc)

\* the dedup key of the handle scan: `handle-${proc.ProcessId}`
HandleKey(proc) == "handle-" \o ToString(proc.Id)

(***************************************************************************)
(* State.                                                                  *)
(***************************************************************************)
VARIABLES
    isMonitoring,    \* this.isMonitoring
    processMap,      \* this.processMap: dedup key -> Date.now() at insertion
    fileWatchers,    \* this.fileWatchers, in insertion order: <<[dir, open]>>
    intervals,       \* this.intervals: the timer handles kept for stop()
    maxProcessAge,   \* this.options.maxProcessAge
    procs,           \* environment: the reader processes a query can report
    dirsOnDisk,      \* environment: the candidate watch directories that exist
    files,           \* environment: the names of the files that change in them
    errorListener,   \* a listener for 'error' is registered on the emitter
    faultyListener,  \* a listener for 'fileOpened' that throws is registered
    timers,          \* event loop: scheduled interval timers, handle -> [kind, due]
    orphans,         \* event loop: open watch handles fileWatchers no longer holds
    pending,         \* event loop: settle-delay timeouts not yet fired (bag)
    inflight,        \* external commands started and not yet completed (bag)
    now,             \* Date.now()
    lastOp,          \* history: the handler that ran last
    lastOutcome,     \* history: the input that decided its path: the state
                     \* start() and stop() found, the answer a poll got
    lastBatch,       \* history: the dedup keys of the records it iterated over
    lastEmitted,     \* history: the events it delivered to listeners, in order
    lastThrew,       \* history: an exception escaped from it
    lastAnalysed,    \* history: the dedup keys it called analyzeProcess for
    analyses,        \* history: per cached key, analyzeProcess calls since insertion
    analysedAt,      \* history: per key, the times of its analyses since the last stop()
    due              \* history: the process-scan keys analysed before the last stop()
                     \* that no process scan has returned to the running engine since

\* The older FileAccessMonitor kept in src/main.js.
VARIABLES
    oldIsMonitoring, \* its this.isMonitoring
    oldTimers,       \* event loop: its scheduled interval timers, handle -> kind
    oldHandles,      \* event loop: the number of handles setInterval gave it
    oldWatchers,     \* its this.fileWatchers: the directories in the map
    oldLastOp        \* history: the handler of it that ran last

oldVars == <<oldIsMonitoring, oldTimers, oldHandles, oldWatchers, oldLastOp>>

\* The application's main module (part_005).
VARIABLES
    isAPIHealthy,    \* its global isAPIHealthy
    appCalls,        \* its processFile and checkAPIHealth calls that await a
                     \* response of the summary service (bag)
    appLast          \* history: the turn of the event loop that ran last in it

appVars == <<isAPIHealthy, appCalls, appLast>>

\* The Logger of part_001, for one log file name.
VARIABLES
    maxFiles,        \* its this.options.maxFiles
    logLines,        \* file system: the lines of the log file, 0 when it does not exist
    rotated,         \* file system: the rotated copies, index -> the number of
                     \* the rotation that took the copy out of the log file
    rotations,       \* history: the rotations that moved the log file to index 1
    logLastOp        \* history: what the last writeToFile did

logVars == <<maxFiles, logLines, rotated, rotations, logLastOp>>

\* the state outside the FileAccessMonitor of part_001
outsideVars == <<oldVars, appVars, logVars>>

engineVars == <<isMonitoring, processMap, fileWatchers, intervals>>
configVars == <<maxProcessAge, procs, dirsOnDisk, files>>
loopVars == <<timers, orphans, pending, inflight>>
historyVars == <<lastOp, lastOutcome, lastBatch, lastEmitted, lastThrew,
                 lastAnalysed, analyses, analysedAt, due>>
\* the state of the FileAccessMonitor of part_001 and of its environment
monitorVars == <<isMonitoring, processMap, fileWatchers, intervals, maxProcessAge,
                 procs, dirsOnDisk, files, errorListener, faultyListener, timers,
                 orphans, pending, inflight, now, lastOp, lastOutcome, lastBatch,
                 lastEmitted, lastThrew, lastAnalysed, analyses, analysedAt, due>>
vars == <<monitorVars, outsideVars>>

\* the empty Map
EmptyMap == [k \in {} |-> 0]

\* constructor: the state of a new FileAccessMonitor
Constructed ==
    /\ isMonitoring = FALSE
    /\ processMap = EmptyMap
    /\ fileWatchers = <<>>
    /\ intervals = <<>>
    /\ errorListener = FALSE
    /\ faultyListener = FALSE
    /\ timers = EmptyMap
    /\ orphans = EmptyBag
    /\ pending = EmptyBag
    /\ inflight = EmptyBag
    /\ now = 0
    /\ lastOp = "constructor"
    /\ lastOutcome = "none"
    /\ lastBatch = <<>>
    /\ lastEmitted = <<>>
    /\ lastThrew = FALSE
    /\ lastAnalysed = <<>>
    /\ analyses = EmptyMap
    /\ analysedAt = EmptyMap
    /\ due = {}

\* constructor of the older monitor (src/main.js)
OldConstructed ==
    /\ oldIsMonitoring = FALSE
    /\ oldTimers = [h \in {} |-> ""]
    /\ oldHandles = 0
    /\ oldWatchers = {}
    /\ oldLastOp = "constructor"

\* a call that is about no file
NoFile == [path |-> <<>>, exists |-> FALSE, size |-> 0]

\* the main module loaded: let isAPIHealthy = false
AppLoaded ==
    /\ isAPIHealthy = FALSE
    /\ appCalls = EmptyBag
    /\ appLast = [op |-> "load", file |-> NoFile, outcome |-> "none"]

\* new Logger({maxFiles: n}) on an empty log directory
LoggerConstructed(n) ==
    /\ maxFiles = n
    /\ logLines = 0
    /\ rotated = EmptyMap
    /\ rotations = 0
    /\ logLastOp = "constructor"

\* the state outside the engine when the engine is constructed
Elsewhere ==
    /\ OldConstructed
    /\ AppLoaded
    /\ LoggerConstructed(DefaultMaxFiles)

(***************************************************************************)
(* Helpers on the state.                                                   *)
(***************************************************************************)
\* Map.prototype.set on a function
MapSet(m, k, v) == [x \in DOMAIN m \cup {k} |-> IF x = k THEN v ELSE m[x]]
\* the function m without the keys of ks
MapDrop(m, ks) == [x \in DOMAIN m \ ks |-> m[x]]

\* sequences over S of length at most n
SeqsUpTo(S, n) == UNION {[1..k -> S] : k \in 0..n}

\* number of positions of list holding x
Count(list, x) == Cardinality({i \in 1..Len(list) : list[i] = x})

\* external commands and settle timeouts outstanding
Load == BagCardinality(inflight) + BagCardinality(pending)

\* setInterval: a handle not in use by a scheduled timer
FreshTimer(ts) == CHOOSE id \in 1..(Cardinality(DOMAIN ts) + 1) : id \notin DOMAIN ts

\* the scheduled timers of one kind
TimersOf(kind) == {id \in DOMAIN timers : timers[id].kind = kind}

\* error(message, error): console.error, then emit('error', ...). An emitter
\* without 'error' listener throws from emit instead of delivering.
error(message) ==
    IF errorListener
    THEN [events |-> <<ErrorEvent(message)>>, threw |-> FALSE]
    ELSE [events |-> <<>>, threw |-> TRUE]

\* position of dir in the ordered map fw, or 0
EntryOf(fw, dir) ==
    IF \E i \in 1..Len(fw) : fw[i].dir = dir
    THEN CHOOSE i \in 1..Len(fw) : fw[i].dir = dir
    ELSE 0

RECURSIVE WatchEach(_, _, _, _, _)
\* watchDirs.forEach of setupDirectoryWatchers: fs.watch throws for the
\* directories of `failing`. Result: the map, the orphaned handles, the events
\* emitted and whether an exception left the loop.
WatchEach(dirs, fw, orph, failing, events) ==
    IF dirs = <<>> THEN [fw |-> fw, orph |-> orph, events |-> events, threw |-> FALSE]
    ELSE LET dir == Head(dirs)
             i == EntryOf(fw, dir)
         IN  IF dir \in failing
             THEN LET e == error("Error setting up watcher for " \o dir)
                  IN  IF e.threw
                      THEN [fw |-> fw, orph |-> orph, events |-> events, threw |-> TRUE]
                      ELSE WatchEach(Tail(dirs), fw, orph, failing, events \o e.events)
             ELSE IF i = 0
                  THEN WatchEach(Tail(dirs), Append(fw, [dir |-> dir, open |-> TRUE]),
                                 orph, failing, events)
                  ELSE WatchEach(Tail(dirs), [fw EXCEPT ![i].open = TRUE],
                                 IF fw[i].open THEN orph (+) SetToBag({dir}) ELSE orph,
                                 failing, events)

\* setupDirectoryWatchers(): os.homedir() may throw before any watch is set
\* up; `existing` are the candidate directories fs.existsSync finds.
setupDirectoryWatchers(fw, orph, homedirThrows, existing, failing) ==
    IF homedirThrows
    THEN [fw |-> fw, orph |-> orph, events |-> <<>>, threw |-> TRUE]
    ELSE WatchEach(SelectSeq(WatchDirs, LAMBDA d : d \in existing), fw, orph,
                   failing, <<>>)

RECURSIVE CloseEach(_, _, _, _)
\* this.fileWatchers.forEach of stop(): watcher.close() throws for the open
\* handles of the directories of closeFails and leaves them open.
CloseEach(fw, i, closeFails, events) ==
    IF i > Len(fw) THEN [fw |-> fw, events |-> events, threw |-> FALSE]
    ELSE IF fw[i].open /\ fw[i].dir \in closeFails
         THEN LET e == error("Error closing watcher for " \o fw[i].dir)
              IN  IF e.threw
                  THEN [fw |-> fw, events |-> events, threw |-> TRUE]
                  ELSE CloseEach(fw, i + 1, closeFails, events \o e.events)
         ELSE CloseEach([fw EXCEPT ![i].open = FALSE], i + 1, closeFails, events)

\* the handles of fw that are still open, as a bag of directories
OpenHandles(fw) ==
    LET dirs == {fw[i].dir : i \in {j \in 1..Len(fw) : fw[j].open}}
    IN  SetToBag(dirs)

\* the body of stop() after its guard, from the state (pm, fw, ivs, ts,
\* orph): the state it leaves, the events it emits and whether it threw
stopRunning(pm, fw, ivs, ts, orph, closeFails) ==
    LET cleared == MapDrop(ts, {ivs[i] : i \in 1..Len(ivs)})
        c == CloseEach(fw, 1, closeFails, <<>>)
    IN  IF c.threw
        THEN [isMonitoring |-> FALSE, processMap |-> pm, fileWatchers |-> c.fw,
              intervals |-> <<>>, timers |-> cleared, orphans |-> orph,
              events |-> c.events, threw |-> TRUE, ran |-> TRUE]
        ELSE [isMonitoring |-> FALSE, processMap |-> EmptyMap,
              fileWatchers |-> <<>>, intervals |-> <<>>, timers |-> cleared,
              orphans |-> orph (+) OpenHandles(c.fw), events |-> c.events,
              threw |-> FALSE, ran |-> TRUE]

\* stop() without its guard
stopAlways(mon, pm, fw, ivs, ts, orph, closeFails) ==
    stopRunning(pm, fw, ivs, ts, orph, closeFails)

\* stop(): if (!this.isMonitoring) return
stop(mon, pm, fw, ivs, ts, orph, closeFails) ==
    IF ~mon
    THEN [isMonitoring |-> mon, processMap |-> pm, fileWatchers |-> fw,
          intervals |-> ivs, timers |-> ts, orphans |-> orph, events |-> <<>>,
          threw |-> FALSE, ran |-> FALSE]
    ELSE stopRunning(pm, fw, ivs, ts, orph, closeFails)

\* the history left by a handler of the engine, which touches nothing
\* outside the engine
Ran(op, outcome, batch, events, threw, analysedKeys) ==
    /\ UNCHANGED outsideVars
    /\ lastOp' = op
    /\ lastOutcome' = outcome
    /\ lastBatch' = batch
    /\ lastEmitted' = events
    /\ lastThrew' = threw
    /\ lastAnalysed' = analysedKeys

\* the history when the handler analysed nothing and emptied or kept the cache
KeepCounts == /\ analyses' = [k \in DOMAIN processMap' |-> analyses[k]]
              /\ UNCHANGED <<analysedAt, due>>

\* the keys the process scan builds
ScanKeys == {ScanKey(p) : p \in ProcSamples \cup {ProcCtor, ProcNoCmd}}

(***************************************************************************)
(* The public methods.                                                     *)
(***************************************************************************)
\* startAdvancedMonitoring() while isMonitoring: logs and returns
StartWhileRunning ==
    /\ isMonitoring
    /\ UNCHANGED <<engineVars, configVars, errorListener, faultyListener, loopVars, now>>
    /\ Ran("start", "running", <<>>, <<>>, FALSE, <<>>)
    /\ KeepCounts

\* the four setInterval calls of startAdvancedMonitoring that follow the
\* first one, and the assignment of this.intervals
RestOfTimers(ts, t1) ==
    LET t2 == FreshTimer(ts)
        ts2 == MapSet(ts, t2, [kind |-> "handleMonitor", due |-> 0])
        t3 == FreshTimer(ts2)
        ts3 == MapSet(ts2, t3, [kind |-> "recentMonitor", due |-> 0])
        t4 == FreshTimer(ts3)
        ts4 == MapSet(ts3, t4, [kind |-> "cleanupInterval", due |-> now + CleanupPeriod])
    IN  [timers |-> ts4, intervals |-> <<t1, t2, t3, t4>>]

\* the existing directories whose fs.watch throws, in the order of watchDirs
FailedDirs(existing, failing) ==
    LET Fails(dir) == dir \in existing \cap failing
    IN  SelectSeq(WatchDirs, Fails)

\* startAdvancedMonitoring() on a stopped engine. Inputs: whether
\* os.homedir() throws, the candidate directories that exist, those whose
\* fs.watch throws, and those whose close would throw in the stop() of the
\* catch block.
StartStopped(homedirThrows, existing, failing, closeFails) ==
    /\ ~isMonitoring
    /\ Cardinality(DOMAIN timers) + 4 <= MaxTimers
    /\ LET t1 == FreshTimer(timers)
           ts1 == MapSet(timers, t1, [kind |-> "processScanner", due |-> 0])
           w == setupDirectoryWatchers(fileWatchers, orphans, homedirThrows,
                                       existing, failing)
       IN  IF ~w.threw
           THEN LET r == RestOfTimers(ts1, t1)
                IN  /\ isMonitoring' = TRUE
                    /\ timers' = r.timers
                    /\ intervals' = r.intervals
                    /\ fileWatchers' = w.fw
                    /\ orphans' = w.orph
                    /\ UNCHANGED processMap
                    /\ Ran("start", "started", FailedDirs(existing, failing), w.events, FALSE, <<>>)
                    /\ KeepCounts
           ELSE LET e == error("Failed to start monitoring")
                IN  IF e.threw
                    THEN /\ isMonitoring' = TRUE
                         /\ timers' = ts1
                         /\ fileWatchers' = w.fw
                         /\ orphans' = w.orph
                         /\ UNCHANGED <<intervals, processMap>>
                         /\ Ran("start", "failed", FailedDirs(existing, failing), w.events, TRUE, <<>>)
                         /\ KeepCounts
                    ELSE LET st == stop(TRUE, processMap, w.fw, intervals, ts1,
                                        w.orph, closeFails)
                         IN  /\ isMonitoring' = st.isMonitoring
                             /\ timers' = st.timers
                             /\ intervals' = st.intervals
                             /\ fileWatchers' = st.fileWatchers
                             /\ orphans' = st.orphans
                             /\ processMap' = st.processMap
                             /\ Ran("start", "failed", FailedDirs(existing, failing),
                                    w.events \o e.events \o st.events,
                                    st.threw, <<>>)
                             /\ analyses' = [k \in DOMAIN st.processMap |-> analyses[k]]
                             /\ analysedAt' = EmptyMap
                             /\ due' = due \cup (DOMAIN analysedAt \cap ScanKeys)
    /\ BagCardinality(orphans') <= MaxOrphans
    /\ UNCHANGED <<configVars, errorListener, faultyListener, pending, inflight, now>>

\* the directories of fw whose handle is open
OpenDirs(fw) == {fw[i].dir : i \in {j \in 1..Len(fw) : fw[j].open}}

\* startAdvancedMonitoring()
Start ==
    \/ StartWhileRunning
    \/ \E existing \in SUBSET dirsOnDisk :
         \E failing \in SUBSET existing :
           StartStopped(FALSE, existing, failing, {})
    \/ \E closeFails \in SUBSET OpenDirs(fileWatchers) :
         StartStopped(TRUE, {}, {}, closeFails)

\* stop(); closeFails: the directories whose watcher.close() throws
Stop ==
    \E closeFails \in SUBSET OpenDirs(fileWatchers) :
      LET st == stop(isMonitoring, processMap, fileWatchers, intervals, timers,
                     orphans, closeFails)
      IN  /\ isMonitoring' = st.isMonitoring
          /\ processMap' = st.processMap
          /\ fileWatchers' = st.fileWatchers
          /\ intervals' = st.intervals
          /\ timers' = st.timers
          /\ orphans' = st.orphans
          /\ BagCardinality(orphans') <= MaxOrphans
          /\ Ran("stop", IF isMonitoring THEN "running" ELSE "stopped", <<>>,
                 st.events, st.threw, <<>>)
          /\ analyses' = [k \in DOMAIN st.processMap |-> analyses[k]]
          /\ analysedAt' = IF st.ran THEN EmptyMap ELSE analysedAt
          /\ due' = IF st.ran THEN due \cup (DOMAIN analysedAt \cap ScanKeys) ELSE due
          /\ UNCHANGED <<configVars, errorListener, faultyListener, pending, inflight, now>>

\* the object getStatus() returns
getStatus ==
    [isMonitoring |-> isMonitoring,
     processCount |-> Cardinality(DOMAIN processMap),
     watcherCount |-> Len(fileWatchers),
     intervalCount |-> Len(intervals)]

\* getStatus(), called by the host
GetStatus ==
    /\ UNCHANGED <<engineVars, configVars, errorListener, faultyListener, loopVars, now>>
    /\ Ran("getStatus", "none", <<>>, <<>>, FALSE, <<>>)
    /\ KeepCounts

\* on('error', listener), called by the host
OnError ==
    /\ ~errorListener
    /\ errorListener' = TRUE
    /\ UNCHANGED <<engineVars, configVars, faultyListener, loopVars, now>>
    /\ Ran("on", "none", <<>>, <<>>, FALSE, <<>>)
    /\ KeepCounts

\* on('fileOpened', listener), called by the host with a listener that throws
OnFileOpened ==
    /\ ~faultyListener
    /\ faultyListener' = TRUE
    /\ UNCHANGED <<engineVars, configVars, errorListener, loopVars, now>>
    /\ Ran("on", "fileOpened", <<>>, <<>>, FALSE, <<>>)
    /\ KeepCounts

(***************************************************************************)
(* Timer ticks.                                                            *)
(***************************************************************************)
\* executeCommand(command, context, callback): exec starts the command
executeCommand(context, fileName, filePath) ==
    SetToBag({[context |-> context, fileName |-> fileName, filePath |-> filePath]})

\* processScanner tick: if (!this.isMonitoring) return; quickProcessScan()
ProcessScannerTick ==
    /\ TimersOf("processScanner") # {}
    /\ IF isMonitoring
       THEN /\ Load < MaxInFlight
            /\ inflight' = inflight (+) executeCommand("process-scan", <<>>, "")
       ELSE UNCHANGED inflight
    /\ UNCHANGED <<engineVars, configVars, errorListener, faultyListener, timers, orphans, pending, now>>
    /\ Ran("processScanner", "none", <<>>, <<>>, FALSE, <<>>)
    /\ KeepCounts

\* handleMonitor tick: if (!this.isMonitoring) return; monitorFileHandles()
HandleMonitorTick ==
    /\ TimersOf("handleMonitor") # {}
    /\ IF isMonitoring
       THEN /\ Load < MaxInFlight
            /\ inflight' = inflight (+) executeCommand("handle-monitor", <<>>, "")
       ELSE UNCHANGED inflight
    /\ UNCHANGED <<engineVars, configVars, errorListener, faultyListener, timers, orphans, pending, now>>
    /\ Ran("handleMonitor", "none", <<>>, <<>>, FALSE, <<>>)
    /\ KeepCounts

\* file.endsWith('.lnk')
EndsWithLnk(file) == Len(file) >= 4 /\ SubSeq(file, Len(file) - 3, Len(file)) = <<".", "l", "n", "k">>

\* files.forEach of monitorRecentFiles: the entries handed to analyzeRecentFile
RecentHits(listing) ==
    {f \in listing : EndsWithLnk(f.file) /\ ~f.statFails /\ f.age < RecentWindow}

\* the listings fs.readdirSync may return: no name twice
Listings ==
    {l \in SUBSET RecentSamples : \A f, g \in l : f.file = g.file => f = g}

\* monitorRecentFiles() skipping a shortcut whose resolution is under way
monitorRecentFilesOnce(folder, listing) ==
    IF folder = "listed"
    THEN SetToBag({[context |-> "recent-file", fileName |-> f.file, filePath |-> ""] :
                   f \in RecentHits(listing)} \ BagToSet(inflight))
    ELSE EmptyBag

\* monitorRecentFiles() resolving a shortcut whatever the state of the folder
monitorRecentFilesAnyway(folder, listing) ==
    SetToBag({[context |-> "recent-file", fileName |-> LnkReport, filePath |-> ""]})

\* monitorRecentFiles(); folder: "missing", "unreadable" or "listed"
monitorRecentFiles(folder, listing) ==
    IF folder = "listed"
    THEN SetToBag({[context |-> "recent-file", fileName |-> f.file, filePath |-> ""] :
                   f \in RecentHits(listing)})
    ELSE EmptyBag

\* monitorRecentFiles() called by the tick, finding the folder in the state
\* `folder` and reading `listing` from it
RecentPoll(folder, listing) ==
    /\ Load + Cardinality(RecentHits(listing)) <= MaxInFlight
    /\ inflight' = inflight (+) monitorRecentFiles(folder, listing)
    /\ Ran("recentMonitor", folder, <<>>, <<>>, FALSE, <<>>)

\* recentMonitor tick: if (!this.isMonitoring) return; monitorRecentFiles()
RecentMonitorTick ==
    /\ TimersOf("recentMonitor") # {}
    /\ IF isMonitoring
       THEN \E folder \in {"missing", "unreadable", "listed"} :
              \E listing \in IF folder = "listed" THEN Listings ELSE {{}} :
                RecentPoll(folder, listing)
       ELSE /\ UNCHANGED inflight
            /\ Ran("recentMonitor", "none", <<>>, <<>>, FALSE, <<>>)
    /\ UNCHANGED <<engineVars, configVars, errorListener, faultyListener, timers, orphans, pending, now>>
    /\ KeepCounts

\* cleanupOldProcesses() deleting every entry it iterates over
cleanupClearing(pm) == MapDrop(pm, DOMAIN pm)

\* cleanupOldProcesses() purging with >= instead of >
cleanupTooEarly(pm) ==
    MapDrop(pm, {key \in DOMAIN pm : now - pm[key] >= maxProcessAge})

\* cleanupOldProcesses(): the cache it leaves
cleanupOldProcesses(pm) ==
    MapDrop(pm, {key \in DOMAIN pm : now - pm[key] > maxProcessAge})

\* cleanupInterval tick, every CleanupPeriod
CleanupTick ==
    \E id \in TimersOf("cleanupInterval") :
      /\ timers[id].due = now
      /\ timers' = [timers EXCEPT ![id].due = now + CleanupPeriod]
      /\ processMap' = IF isMonitoring THEN cleanupOldProcesses(processMap)
                       ELSE processMap
      /\ UNCHANGED <<isMonitoring, fileWatchers, intervals, configVars,
                     errorListener, faultyListener, orphans, pending, inflight, now>>
      /\ Ran("cleanupInterval", "none", <<>>, <<>>, FALSE, <<>>)
      /\ KeepCounts

\* the clock advances by one cleanup period; a cleanup timer that is due
\* fires before the clock passes it
AdvanceTime ==
    /\ now < MaxTicks * CleanupPeriod
    /\ \A id \in TimersOf("cleanupInterval") : timers[id].due > now
    /\ now' = now + CleanupPeriod
    /\ UNCHANGED <<engineVars, configVars, errorListener, faultyListener, loopVars>>
    /\ Ran("clock", "none", <<>>, <<>>, FALSE, <<>>)
    /\ KeepCounts

(***************************************************************************)
(* Directory watches.                                                      *)
(***************************************************************************)
\* handleFileSystemEvent(dir, filename): the settle timeouts it schedules
handleFileSystemEvent(dir, filename) ==
    IF Join(ToLower(extname(filename))) \in targetExtensions
    THEN SetToBag({[fileName |-> filename, filePath |-> dir \o "\\" \o Join(filename)]})
    ELSE EmptyBag

\* the callback given to fs.watch for the watch on dir, called with
\* (eventType, filename); filename <<>> stands for a null filename
WatchNotify(dir, eventType, filename) ==
    LET scheduled == IF filename # <<>> /\ eventType = "change"
                     THEN handleFileSystemEvent(dir, filename)
                     ELSE EmptyBag
    IN  /\ Load + BagCardinality(scheduled) <= MaxInFlight
        /\ pending' = pending (+) scheduled
        /\ UNCHANGED <<engineVars, configVars, errorListener, faultyListener, timers, orphans, inflight, now>>
        /\ Ran("watch", "none", <<>>, <<>>, FALSE, <<>>)
        /\ KeepCounts

\* a watched directory notifies a change of one of the files or another event
WatchCallback ==
    \E dir \in OpenDirs(fileWatchers) \cup BagToSet(orphans) :
      \E eventType \in EventTypes :
        \E filename \in files \cup {<<>>} :
          WatchNotify(dir, eventType, filename)

\* watcher.on('error', ...)
WatcherError ==
    \E dir \in OpenDirs(fileWatchers) \cup BagToSet(orphans) :
      LET e == error("Watcher error for " \o dir)
      IN  /\ UNCHANGED <<engineVars, configVars, errorListener, faultyListener, loopVars, now>>
          /\ Ran("watcherError", "none", <<>>, e.events, e.threw, <<>>)
          /\ KeepCounts

\* the settle timeout of handleFileSystemEvent fires: checkFileAccess
SettleTimeout ==
    \E p \in BagToSet(pending) :
      /\ pending' = pending (-) SetToBag({p})
      /\ inflight' = inflight (+) executeCommand("file-access", p.fileName, p.filePath)
      /\ UNCHANGED <<engineVars, configVars, errorListener, faultyListener, timers, orphans, now>>
      /\ Ran("settle", "none", <<>>, <<>>, FALSE, <<>>)
      /\ KeepCounts

(***************************************************************************)
(* Completion of external commands.                                        *)
(***************************************************************************)
\* the process names of this model that
\* -match "(AcroRd32|Acrobat|WINWORD|chrome|firefox|msedge|Foxit|Sumatra)"
ScanAllowList ==
    {"AcroRd32", "Acrobat", "WINWORD", "WINWORD.EXE", "chrome", "firefox", "msedge",
     "FoxitReader", "SumatraPDF"}

\* the process names of this model that
\* -match "(AcroRd32|Acrobat|WINWORD|chrome|firefox|msedge)"
HandleAllowList ==
    {"AcroRd32", "Acrobat", "WINWORD", "WINWORD.EXE", "chrome", "firefox", "msedge"}

\* $wmiProc.CommandLine -match "\.(pdf|doc|docx)"
MentionsTarget(commandLine) ==
    \E i \in 1..Len(commandLine) : ExtLenAt(commandLine, i) > 0

\* every process record of this model
ProcUniverse == ProcSamples \cup {ProcNoCmd, ProcCtor}

\* the Where-Object filter of quickProcessScan and the test that guards the
\* construction of a record: a process whose command line WMI does not give
\* (CommandLine <<>>) is not printed
ScanAnswer ==
    {p \in ProcUniverse : /\ p.Name \in ScanAllowList
                          /\ p.Title # <<>>
                          /\ p.CommandLine # <<>>}

\* the same for monitorFileHandles
HandleAnswer ==
    {p \in ProcUniverse : /\ p.Name \in HandleAllowList
                          /\ p.CommandLine # <<>>
                          /\ MentionsTarget(p.CommandLine)}

\* the Where-Object filter of checkFileAccess, per file name:
\* MainWindowTitle -like "*$fileName*" -or ProcessName -match "(...)"
AccessAnswer ==
    [f \in FileSamples |->
       {p \in ProcUniverse : \/ Contains(ToLower(p.Title), ToLower(f))
                             \/ p.Name \in HandleAllowList}]

\* the running processes whose record the query of command c prints
Answer(c) ==
    CASE c.context = "process-scan" -> procs \cap ScanAnswer
      [] c.context = "handle-monitor" -> procs \cap HandleAnswer
      [] c.context = "file-access" -> procs \cap AccessAnswer[c.fileName]
      [] OTHER -> {}

\* What exec can hand to the callback of executeCommand:
\*   error    the command failed (error argument set); `items` is what it
\*            had printed to stdout before failing
\*   empty    stdout is blank
\*   garbage  stdout is not JSON
\*   array    stdout is a JSON array of the records `items`
\*   object   stdout is one JSON object, the record items[1]
\* The records are those of processes the query of the command selects.
Outcomes(c) ==
    {[kind |-> k, items |-> <<>>] : k \in {"error", "empty", "garbage"}}
    \cup
    (IF c.context = "recent-file"
     THEN {[kind |-> k, items |-> <<t>>] : k \in {"error", "object"}, t \in TargetSamples}
     ELSE {[kind |-> "array", items |-> b] : b \in SeqsUpTo(Answer(c), MaxBatch)}
          \cup {[kind |-> k, items |-> <<q>>] : k \in {"error", "object"}, q \in Answer(c)})

\* the dedup key a strategy uses for a record
KeyOf(context, proc) ==
    IF context = "process-scan" THEN ScanKey(proc) ELSE HandleKey(proc)

\* the has() test answering "absent" for every key
IsNewAlways(pm, key) == TRUE

\* if (!this.processMap.has(key))
IsNew(pm, key) == key \notin DOMAIN pm

\* emit('fileOpened', ...) calls the listeners synchronously: a listener that
\* throws ends the forEach that reported the event, and the exception is
\* caught by the try block of executeCommand around callback(result)
Aborted(events) == faultyListener /\ events # <<>>

\* the events of `events` that reach the listeners
Delivered(events) == IF Aborted(events) THEN <<events[1]>> ELSE events

RECURSIVE ScanEach(_, _, _, _, _)
\* this.analyzeProcess(process) reporting `reported` for the record just
\* cached under the last key of `analysed`, and the rest of the forEach
ScanRest(context, rest, pm, analysed, events, reported) ==
    IF Aborted(reported)
    THEN [processMap |-> pm, batch |-> <<>>, analysed |-> analysed,
          events |-> events \o Delivered(reported)]
    ELSE ScanEach(context, rest, pm, analysed, events \o reported)

\* processes.forEach of quickProcessScan and monitorFileHandles: the cache
\* it leaves, the keys analysed and the events reported
ScanEach(context, items, pm, analysed, events) ==
    IF items = <<>>
    THEN [processMap |-> pm, batch |-> <<>>, analysed |-> analysed, events |-> events]
    ELSE LET proc == Head(items)
             key == KeyOf(context, proc)
         IN  IF IsNew(pm, key)
             THEN ScanRest(context, Tail(items), MapSet(pm, key, now),
                           Append(analysed, key), events, AnalysisOf[proc])
             ELSE ScanEach(context, Tail(items), pm, analysed, events)

\* the callback's result when it leaves the cache alone
NoScan(pm, events) ==
    [processMap |-> pm, batch |-> <<>>, analysed |-> <<>>, events |-> events]

\* the result guard rejecting every result
HasRecordsNever(outcome) == FALSE

\* if (result && result.length > 0): only a non-empty array passes
HasRecords(outcome) == outcome.kind = "array" /\ Len(outcome.items) > 0

\* the callbacks of quickProcessScan and monitorFileHandles
ScanCallback(context, outcome, pm) ==
    IF HasRecords(outcome)
    THEN [ScanEach(context, outcome.items, pm, <<>>, <<>>) EXCEPT
            !.batch = [i \in 1..Len(outcome.items) |-> KeyOf(context, outcome.items[i])]]
    ELSE NoScan(pm, <<>>)

\* the callback of checkFileAccess(filePath, fileName)
FileAccessCallback(c, outcome) ==
    IF HasRecords(outcome)
    THEN Delivered([i \in 1..Len(outcome.items) |->
            LET proc == outcome.items[i]
            IN  FileOpened(Join(c.fileName), c.filePath, Join(extname(c.fileName)),
                           getReaderName(proc.Name), proc.Name, ToString(proc.Id),
                           Join(proc.Title), "File System Monitor")])
    ELSE <<>>

\* the callback of analyzeRecentFile without the test of the extension
RecentFileCallbackUnfiltered(outcome) ==
    IF outcome.items # <<>> /\ outcome.items[1] # <<>>
    THEN LET target == outcome.items[1]
         IN  <<FileOpened(Join(basename(target)), Join(target),
                          Join(ToLower(extname(target))),
                          "Recently Accessed", "System", "Recent", "",
                          "Recent Files Monitor")>>
    ELSE <<>>

\* the callback of analyzeRecentFile
RecentFileCallback(outcome) ==
    IF outcome.items # <<>> /\ outcome.items[1] # <<>>
    THEN LET target == outcome.items[1]
             ext == Join(ToLower(extname(target)))
         IN  IF ext \in targetExtensions
             THEN <<FileOpened(Join(basename(target)), Join(target), ext,
                               "Recently Accessed", "System", "Recent", "",
                               "Recent Files Monitor")>>
             ELSE <<>>
    ELSE <<>>

\* the process ids of the records in the result handed to a callback
Reported(outcome) ==
    [i \in 1..Len(outcome.items) |-> ToString(outcome.items[i].Id)]

\* callback(result): the callback of the strategy that started command c
Callback(c, outcome, pm) ==
    IF c.context \in {"process-scan", "handle-monitor"}
    THEN ScanCallback(c.context, outcome, pm)
    ELSE IF c.context = "file-access"
         THEN [NoScan(pm, FileAccessCallback(c, outcome)) EXCEPT !.batch = Reported(outcome)]
         ELSE NoScan(pm, RecentFileCallback(outcome))

\* executeCommand's callback without `if (error) return`: what the failed
\* command had printed is parsed and delivered
CommandResultNoErrorCheck(c, outcome, pm) ==
    IF outcome.kind \in {"empty", "garbage"} \/ outcome.items = <<>>
    THEN NoScan(pm, <<>>)
    ELSE Callback(c, [outcome EXCEPT !.kind = IF @ = "error" THEN "array" ELSE @], pm)

\* executeCommand's callback reporting a failed or unparseable command
\* through error()
CommandResultReporting(c, outcome, pm) ==
    IF outcome.kind \in {"error", "garbage"}
    THEN NoScan(pm, <<ErrorEvent(c.context \o " error")>>)
    ELSE IF outcome.kind = "empty" THEN NoScan(pm, <<>>)
    ELSE Callback(c, outcome, pm)

\* the callback exec calls when command c ends with `outcome`: executeCommand
\* returns on error, skips blank output, logs unparseable output and
\* otherwise hands the parsed result to the strategy's callback
CommandResult(c, outcome, pm) ==
    IF outcome.kind \in {"error", "empty", "garbage"}
    THEN NoScan(pm, <<>>)
    ELSE Callback(c, outcome, pm)

\* the analysis times of each key after the keys of `analysed` were analysed
Analysed(at, analysed) ==
    [k \in DOMAIN at \cup {analysed[i] : i \in 1..Len(analysed)} |->
        (IF k \in DOMAIN at THEN at[k] ELSE <<>>)
        \o [i \in 1..Count(analysed, k) |-> now]]

\* the callback of exec runs: command c ends with `outcome`
Complete(c, outcome) ==
    LET r == CommandResult(c, outcome, processMap)
    IN  /\ inflight' = inflight (-) SetToBag({c})
        /\ processMap' = r.processMap
        /\ UNCHANGED <<isMonitoring, fileWatchers, intervals, configVars,
                       errorListener, faultyListener, timers, orphans, pending, now>>
        /\ Ran("complete", outcome.kind, r.batch, r.events, FALSE, r.analysed)
        /\ analyses' = [k \in DOMAIN r.processMap |->
                          (IF k \in DOMAIN analyses THEN analyses[k] ELSE 0)
                          + Count(r.analysed, k)]
        /\ analysedAt' = Analysed(analysedAt, r.analysed)
        /\ due' = IF isMonitoring /\ c.context = "process-scan"
                  THEN due \ {r.batch[i] : i \in 1..Len(r.batch)}
                  ELSE due

\* an external command completes
CommandComplete ==
    \E c \in BagToSet(inflight) :
      \E outcome \in Outcomes(c) :
        Complete(c, outcome)

(***************************************************************************)
(* The older FileAccessMonitor kept in src/main.js. Its timers are not     *)
(* stored: each cancels itself at its next tick once isMonitoring is       *)
(* false. Its polls are those of the engine above and are left out.        *)
(***************************************************************************)
\* the timers of startAdvancedMonitoring, in the order of their creation
OldKinds == <<"fastScanner", "handleMonitor", "recentMonitor">>

\* the first n setInterval calls of startAdvancedMonitoring
OldIntervals(ts, handles, n) ==
    [h \in DOMAIN ts \cup (handles + 1)..(handles + n) |->
        IF h \in DOMAIN ts THEN ts[h] ELSE OldKinds[h - handles]]

\* startAdvancedMonitoring() of the older monitor: no guard on isMonitoring.
\* os.homedir() may throw in setupDirectoryWatchers, after the first timer
\* was created; `registered` are the directories whose watch is registered.
OldStart ==
    \E homedirThrows \in BOOLEAN : \E registered \in SUBSET dirsOnDisk :
      LET n == IF homedirThrows THEN 1 ELSE 3
      IN  /\ oldHandles + n <= MaxHandles
          /\ homedirThrows => registered = {}
          /\ oldIsMonitoring' = TRUE
          /\ oldTimers' = OldIntervals(oldTimers, oldHandles, n)
          /\ oldHandles' = oldHandles + n
          /\ oldWatchers' = oldWatchers \cup registered
          /\ oldLastOp' = IF homedirThrows THEN "startFailed" ELSE "start"
          /\ UNCHANGED <<monitorVars, appVars, logVars>>

\* stop() of the older monitor: watcher.close() may throw, before the map
\* is cleared
OldStop ==
    \E closeThrows \in BOOLEAN :
      /\ closeThrows => oldWatchers # {}
      /\ oldIsMonitoring' = FALSE
      /\ oldWatchers' = IF closeThrows THEN oldWatchers ELSE {}
      /\ oldLastOp' = IF closeThrows THEN "stopFailed" ELSE "stop"
      /\ UNCHANGED <<oldTimers, oldHandles>>
      /\ UNCHANGED <<monitorVars, appVars, logVars>>

\* a tick of the timer with handle h: if (!this.isMonitoring)
\* { clearInterval(...); return; }, else the poll of its strategy
OldTick(h) ==
    /\ h \in DOMAIN oldTimers
    /\ oldTimers' = IF oldIsMonitoring THEN oldTimers
                    ELSE [g \in DOMAIN oldTimers \ {h} |-> oldTimers[g]]
    /\ oldLastOp' = oldTimers[h]
    /\ UNCHANGED <<oldIsMonitoring, oldHandles, oldWatchers>>
    /\ UNCHANGED <<monitorVars, appVars, logVars>>

(***************************************************************************)
(* processFile and checkAPIHealth of the application's main module         *)
(* (part_005). Each action is one turn of the event loop: the part of a    *)
(* call that runs up to its next await, or the continuation that runs when *)
(* the awaited response arrives.                                           *)
(***************************************************************************)
\* const SUPPORTED
SUPPORTED == {".pdf", ".docx", ".doc"}

\* the documents processFile is called for
PathUpper == <<"C", ":", "\\", "R", ".", "P", "D", "F">>
AppFiles ==
    {[path |-> TargetReport, exists |-> TRUE, size |-> 1024],
     [path |-> TargetReport, exists |-> TRUE, size |-> MaxUploadSize],
     [path |-> TargetReport, exists |-> TRUE, size |-> MaxUploadSize + 1],
     [path |-> TargetReport, exists |-> FALSE, size |-> 0],
     [path |-> PathUpper, exists |-> TRUE, size |-> 1024],
     [path |-> TargetNotes, exists |-> TRUE, size |-> 1024]}

\* the part of processFile from the processing indicator to axios.post:
\* fs.readFileSync may throw into the catch block
sendDocument(readThrows) == IF readThrows THEN "readFailed" ELSE "post"

\* processFile without the test of the size
processFileAnySize(file, healthy, statThrows, readThrows) ==
    IF Join(ToLower(extname(file.path))) \notin SUPPORTED THEN "unsupported"
    ELSE IF ~file.exists THEN "missing"
    ELSE IF statThrows THEN "statFailed"
    ELSE IF ~healthy THEN "recheck"
    ELSE sendDocument(readThrows)

\* processFile(filePath) up to its first await: what the call does
processFile(file, healthy, statThrows, readThrows) ==
    IF Join(ToLower(extname(file.path))) \notin SUPPORTED THEN "unsupported"
    ELSE IF ~file.exists THEN "missing"
    ELSE IF statThrows THEN "statFailed"
    ELSE IF file.size > MaxUploadSize THEN "tooLarge"
    ELSE IF ~healthy THEN "recheck"
    ELSE sendDocument(readThrows)

\* a call of fn that awaits the response to the request `awaiting`
AppCall(fn, awaiting, file) == [fn |-> fn, awaiting |-> awaiting, file |-> file]

\* processFile(filePath) is called
ProcessFile ==
    \E file \in AppFiles : \E statThrows, readThrows \in BOOLEAN :
      LET outcome == processFile(file, isAPIHealthy, statThrows, readThrows)
      IN  /\ BagCardinality(appCalls) < MaxCalls
          /\ appCalls' =
                IF outcome = "recheck"
                THEN appCalls (+) SetToBag({AppCall("processFile", "health", file)})
                ELSE IF outcome = "post"
                     THEN appCalls (+) SetToBag({AppCall("processFile", "post", file)})
                     ELSE appCalls
          /\ appLast' = [op |-> "processFile", file |-> file, outcome |-> outcome]
          /\ UNCHANGED isAPIHealthy
          /\ UNCHANGED <<monitorVars, oldVars, logVars>>

\* checkAPIHealth() is called at startup or from the tray menu
CheckAPIHealth ==
    /\ BagCardinality(appCalls) < MaxCalls
    /\ appCalls' = appCalls (+) SetToBag({AppCall("checkAPIHealth", "health", NoFile)})
    /\ appLast' = [op |-> "checkAPIHealth", file |-> NoFile, outcome |-> "none"]
    /\ UNCHANGED isAPIHealthy
    /\ UNCHANGED <<monitorVars, oldVars, logVars>>

\* the answers to GET /health: status 200, another 2xx status, or a failure
HealthAnswers == {"200", "204", "error"}

\* the request of a checkAPIHealth() call ends: the flag is set, and the
\* processFile call that awaited it goes on in the same turn
HealthResponse ==
    \E c \in BagToSet(appCalls) : \E answer \in HealthAnswers : \E readThrows \in BOOLEAN :
      LET healthy == answer = "200"
          outcome == IF c.fn = "checkAPIHealth" THEN "checked"
                     ELSE IF ~healthy THEN "unavailable"
                     ELSE sendDocument(readThrows)
      IN  /\ c.awaiting = "health"
          /\ isAPIHealthy' = healthy
          /\ appCalls' =
                IF outcome = "post"
                THEN (appCalls (-) SetToBag({c})) (+) SetToBag({AppCall(c.fn, "post", c.file)})
                ELSE appCalls (-) SetToBag({c})
          /\ appLast' = [op |-> "healthResponse", file |-> c.file, outcome |-> outcome]
          /\ UNCHANGED <<monitorVars, oldVars, logVars>>

\* how axios.post can end: a summary, an error response of the service, a
\* refused connection, a timeout, another failure
PostAnswers == {"ok", "apiError", "ECONNREFUSED", "ECONNABORTED", "other"}

\* the POST of a processFile call ends
PostResponse ==
    \E c \in BagToSet(appCalls) : \E answer \in PostAnswers :
      /\ c.awaiting = "post"
      /\ isAPIHealthy' = IF answer = "ECONNREFUSED" THEN FALSE ELSE isAPIHealthy
      /\ appCalls' = appCalls (-) SetToBag({c})
      /\ appLast' = [op |-> "postResponse", file |-> c.file, outcome |-> answer]
      /\ UNCHANGED <<monitorVars, oldVars, logVars>>

(***************************************************************************)
(* Logger.writeToFile and Logger.rotateLogFile (part_001), for one log     *)
(* file name. Every fs call of the two methods may throw.                  *)
(***************************************************************************)
RECURSIVE RotateEach(_, _, _, _)
\* for (let i = maxFiles - 1; i > 0; i--): the copy of index maxFiles - 1 is
\* deleted, every other copy is renamed to the next index; the fs call on
\* the copy of index failAt throws
RotateEach(copies, i, n, failAt) ==
    IF i = 0 THEN [copies |-> copies, threw |-> FALSE]
    ELSE IF i \notin DOMAIN copies THEN RotateEach(copies, i - 1, n, failAt)
    ELSE IF failAt = i THEN [copies |-> copies, threw |-> TRUE]
    ELSE IF i = n - 1 THEN RotateEach(MapDrop(copies, {i}), i - 1, n, failAt)
    ELSE RotateEach(MapSet(MapDrop(copies, {i}), i + 1, copies[i]), i - 1, n, failAt)

\* the end of rotateLogFile: fs.renameSync(filePath, base.1.ext), which
\* throws when failAt = n; an exception of the loop or of the rename is
\* caught and leaves the log file in place
MoveCurrent(r, lines, n, stamp, failAt) ==
    IF r.threw \/ failAt = n
    THEN [copies |-> r.copies, lines |-> lines, moved |-> FALSE]
    ELSE [copies |-> MapSet(r.copies, 1, stamp), lines |-> 0, moved |-> TRUE]

\* rotateLogFile() that deletes no copy
rotateLogFileKeepingAll(copies, lines, n, stamp, failAt) ==
    MoveCurrent(RotateEach(copies, n - 1, n + 1, failAt), lines, n, stamp, failAt)

\* rotateLogFile(filePath) with options.maxFiles = n, as the rotation number
\* `stamp`
rotateLogFile(copies, lines, n, stamp, failAt) ==
    MoveCurrent(RotateEach(copies, n - 1, n, failAt), lines, n, stamp, failAt)

\* the result of a writeToFile that does not rotate
NotRotated == [copies |-> rotated, lines |-> logLines, moved |-> FALSE]

\* writeToFile(level, logEntry); fault: the fs call that throws ("stat" for
\* fs.statSync, "rotate" for the call of rotateLogFile on index `at` or, with
\* at = maxFiles, its last rename, "append" for fs.appendFileSync)
WriteToFile ==
    \E fault \in {"none", "stat", "rotate", "append"} : \E at \in 1..maxFiles :
      LET exists == logLines > 0
          rotates == exists /\ fault # "stat" /\ logLines > maxFileSize
          r == IF rotates
               THEN rotateLogFile(rotated, logLines, maxFiles, rotations + 1,
                                  IF fault = "rotate" THEN at ELSE 0)
               ELSE NotRotated
          appended == fault \notin {"stat", "append"}
      IN  /\ fault = "stat" => exists
          /\ fault = "rotate" => rotates
          /\ fault # "rotate" => at = 1
          /\ rotates => rotations < MaxRotations
          /\ rotated' = r.copies
          /\ logLines' = r.lines + (IF appended THEN 1 ELSE 0)
          /\ logLines' <= MaxLogLines
          /\ rotations' = IF r.moved THEN rotations + 1 ELSE rotations
          /\ logLastOp' = IF r.moved THEN "rotated"
                          ELSE IF rotates THEN "rotationFailed"
                          ELSE IF appended THEN "appended" ELSE "writeFailed"
          /\ UNCHANGED maxFiles
          /\ UNCHANGED <<monitorVars, oldVars, appVars>>

(***************************************************************************)
(* Specifications.                                                         *)
(***************************************************************************)
\* A monitor constructed with the default options on a machine where the
\* first MaxDirs candidate directories exist, Word runs and two files change.
Init ==
    /\ Constructed
    /\ Elsewhere
    /\ maxProcessAge = DefaultMaxProcessAge
    /\ procs = {ProcWord}
    /\ dirsOnDisk = DirsOnDisk
    /\ files = {FileReport, FileNotes}

\* Everything that can happen before the first cleanup period has elapsed.
Next ==
    \/ Start
    \/ Stop
    \/ OnError
    \/ ProcessScannerTick
    \/ HandleMonitorTick
    \/ RecentMonitorTick
    \/ WatchCallback
    \/ WatcherError
    \/ SettleTimeout
    \/ CommandComplete

Spec == Init /\ [][Next]_vars

\* A monitor constructed with options.maxProcessAge of one cleanup period (so
\* that entries age out within MaxTicks periods), on a machine without the
\* candidate directories and without recent-items folder.
InitAging ==
    /\ Constructed
    /\ Elsewhere
    /\ maxProcessAge = CleanupPeriod
    /\ procs = {ProcAcro}
    /\ dirsOnDisk = {}
    /\ files = {}

\* The polls of the two process strategies and the cleanup, over MaxTicks
\* cleanup periods, in a host that subscribes to 'fileOpened' alone.
NextAging ==
    \/ Start
    \/ Stop
    \/ ProcessScannerTick
    \/ HandleMonitorTick
    \/ CleanupTick
    \/ CommandComplete
    \/ AdvanceTime

SpecAging == InitAging /\ [][NextAging]_vars

\* The life cycle alone: start, stop, the host's 'error' subscription, watcher
\* errors and the process scan that fills the cache.
NextLifecycle ==
    \/ Start
    \/ Stop
    \/ OnError
    \/ WatcherError
    \/ ProcessScannerTick
    \/ CommandComplete

SpecLifecycle == Init /\ [][NextLifecycle]_vars

\* A monitor with the default options on a machine where Documents is the one
\* candidate directory, whose files nobody touches.
InitPolls ==
    /\ Constructed
    /\ Elsewhere
    /\ maxProcessAge = DefaultMaxProcessAge
    /\ procs = {ProcWord}
    /\ dirsOnDisk = {WatchDirs[1]}
    /\ files = {}

\* The three polling strategies and the commands they start, in a host that
\* subscribes to 'fileOpened' alone.
NextPolls ==
    \/ Start
    \/ Stop
    \/ ProcessScannerTick
    \/ HandleMonitorTick
    \/ RecentMonitorTick
    \/ CommandComplete

SpecPolls == InitPolls /\ [][NextPolls]_vars

\* A monitor with the default options on a machine where Documents is the one
\* candidate directory and the reader that runs shows r.pdf in its title.
InitWatch ==
    /\ Constructed
    /\ Elsewhere
    /\ maxProcessAge = DefaultMaxProcessAge
    /\ procs = {ProcAcro}
    /\ dirsOnDisk = {WatchDirs[1]}
    /\ files = FileSamples

\* The directory-watch strategy: notifications, settle delays and the
\* confirmation queries.
NextWatch ==
    \/ Start
    \/ Stop
    \/ WatchCallback
    \/ SettleTimeout
    \/ CommandComplete

SpecWatch == InitWatch /\ [][NextWatch]_vars

\* a scan of the given strategy completes and reports the processes
ScanSucceeds(context) ==
    /\ CommandComplete
    /\ lastOutcome' = "array"
    /\ \E p \in procs : Includes(lastBatch', KeyOf(context, p))

\* A monitor with the default options on a machine without the candidate
\* directories.
InitScans ==
    /\ Constructed
    /\ Elsewhere
    /\ maxProcessAge = DefaultMaxProcessAge
    /\ procs = {ProcWord}
    /\ dirsOnDisk = {}
    /\ files = {}

\* The two process strategies and the life cycle.
NextScans ==
    \/ Start
    \/ Stop
    \/ ProcessScannerTick
    \/ HandleMonitorTick
    \/ CommandComplete

\* Every timer that stays scheduled keeps ticking, every command ends, and a
\* query that is repeated forever does not fail forever.
Fairness ==
    /\ SF_vars(ProcessScannerTick)
    /\ SF_vars(HandleMonitorTick)
    /\ WF_vars(CommandComplete)
    /\ SF_vars(ScanSucceeds("process-scan"))
    /\ SF_vars(ScanSucceeds("handle-monitor"))

SpecScansFair == InitScans /\ [][NextScans]_vars /\ Fairness

\* A monitor with the default options on a machine without the candidate
\* directories where one of the sample programs runs.
InitAnalyze ==
    /\ Constructed
    /\ Elsewhere
    /\ maxProcessAge = DefaultMaxProcessAge
    /\ procs \in {{p} : p \in ProcSamples \cup {ProcNoCmd}}
    /\ dirsOnDisk = {}
    /\ files = {}

\* The two process strategies applying analyzeProcess to what the scans return.
SpecAnalyze == InitAnalyze /\ [][NextScans]_vars

\* The life cycle as a host sees it through getStatus().
NextStatus ==
    \/ Start
    \/ Stop
    \/ OnError
    \/ GetStatus
    \/ ProcessScannerTick
    \/ CommandComplete

SpecStatus == Init /\ [][NextStatus]_vars

\* A machine where Documents and Downloads are the candidate directories
\* that may exist and no reader runs.
InitDirs ==
    /\ Constructed
    /\ Elsewhere
    /\ maxProcessAge = DefaultMaxProcessAge
    /\ procs = {}
    /\ dirsOnDisk = {WatchDirs[1], WatchDirs[3]}
    /\ files = {}

\* Starting and stopping over the directories that exist at each start.
NextDirs ==
    \/ Start
    \/ Stop
    \/ OnError
    \/ WatcherError
    \/ GetStatus

SpecDirs == InitDirs /\ [][NextDirs]_vars

\* A machine where Documents is the one candidate directory, r.pdf changes
\* in it and Acrobat Reader runs.
InitTransient ==
    /\ Constructed
    /\ Elsewhere
    /\ maxProcessAge = DefaultMaxProcessAge
    /\ procs = {ProcAcro}
    /\ dirsOnDisk = {WatchDirs[1]}
    /\ files = {FileReport}

\* Every strategy that polls or runs an external command, during one
\* monitoring session.
NextTransient ==
    \/ Start
    \/ OnError
    \/ ProcessScannerTick
    \/ HandleMonitorTick
    \/ RecentMonitorTick
    \/ WatchCallback
    \/ SettleTimeout
    \/ CommandComplete

SpecTransient == InitTransient /\ [][NextTransient]_vars

\* A machine without the candidate directories where Word and Acrobat Reader
\* run.
InitBatch ==
    /\ Constructed
    /\ Elsewhere
    /\ maxProcessAge = DefaultMaxProcessAge
    /\ procs = {ProcWord, ProcAcro}
    /\ dirsOnDisk = {}
    /\ files = {}

\* The process scan in a host whose 'fileOpened' listener may throw.
NextBatch ==
    \/ Start
    \/ Stop
    \/ OnFileOpened
    \/ ProcessScannerTick
    \/ CommandComplete

SpecBatch == InitBatch /\ [][NextBatch]_vars

\* A machine where Documents is the one candidate directory, r.pdf changes
\* in it and a program called constructor shows it.
InitForeign ==
    /\ Constructed
    /\ Elsewhere
    /\ maxProcessAge = DefaultMaxProcessAge
    /\ procs = {ProcCtor}
    /\ dirsOnDisk = {WatchDirs[1]}
    /\ files = {FileReport}

SpecForeign == InitForeign /\ [][NextWatch]_vars

\* The older monitor of main.js on the machine of Init: its start, its stop
\* and the ticks of its timers.
NextOld ==
    \/ OldStart
    \/ OldStop
    \/ \E h \in 1..MaxHandles : OldTick(h)

\* every timer that stays scheduled keeps ticking
SpecOldFair ==
    /\ Init
    /\ [][NextOld]_vars
    /\ \A h \in 1..MaxHandles : WF_vars(OldTick(h))

\* The main module on the machine of Init: calls of processFile and
\* checkAPIHealth and the responses of the summary service.
NextApp ==
    \/ ProcessFile
    \/ CheckAPIHealth
    \/ HealthResponse
    \/ PostResponse

SpecApp == Init /\ [][NextApp]_vars

\* A Logger constructed with options.maxFiles between 2 and MaxMaxFiles on
\* an empty log directory, beside the modules of Init before they act.
InitLogger ==
    /\ Constructed
    /\ maxProcessAge = DefaultMaxProcessAge
    /\ procs = {}
    /\ dirsOnDisk = {}
    /\ files = {}
    /\ OldConstructed
    /\ AppLoaded
    /\ \E n \in 2..MaxMaxFiles : LoggerConstructed(n)

\* The writes of the Logger.
NextLogger == WriteToFile

SpecLogger == InitLogger /\ [][NextLogger]_vars

(***************************************************************************)
(* Properties.                                                             *)
(***************************************************************************)
\* the events of one type among those the last handler delivered
Emitted(type) == {i \in 1..Len(lastEmitted) : lastEmitted[i].type = type}

\* C1: a result that arrives after stop() is discarded: while the engine is
\* stopped (from the return of stop() to the next start) no handler emits a
\* fileOpened event.
C1_NoFileOpenedWhileStopped == ~isMonitoring => Emitted("fileOpened") = {}

\* C2: whenever the engine is stopped the dedup cache is empty.
C2_StoppedCacheEmpty == ~isMonitoring => DOMAIN processMap = {}

\* C3: a stop() that found the engine running and returned leaves it stopped,
\* with no interval timer scheduled, no timer retained, no entry in the
\* watcher set and an empty dedup cache.
C3_StopHalts ==
    (lastOp = "stop" /\ lastOutcome = "running" /\ ~lastThrew)
    => /\ ~isMonitoring
       /\ DOMAIN timers = {}
       /\ intervals = <<>>
       /\ fileWatchers = <<>>
       /\ DOMAIN processMap = {}

\* the four interval timers of a running engine, one of each kind
FourTimers ==
    /\ Cardinality(DOMAIN timers) = 4
    /\ \A kind \in {"processScanner", "handleMonitor", "recentMonitor",
                    "cleanupInterval"} : Cardinality(TimersOf(kind)) = 1

\* C4: startAdvancedMonitoring() on a running engine changes neither timers
\* nor watches nor cache, and after every start call that leaves the engine
\* running exactly four interval timers are scheduled.
C4_StartIdempotent ==
    [][lastOp' = "start"
       => /\ isMonitoring => UNCHANGED <<engineVars, loopVars>>
          /\ isMonitoring' => FourTimers']_vars

\* C5: stop() on an engine that is not running changes no state, emits
\* nothing and throws nothing.
C5_StopWhenStoppedIsNoop ==
    [][(lastOp' = "stop" /\ ~isMonitoring)
       => /\ UNCHANGED <<engineVars, loopVars, configVars, errorListener, faultyListener, now>>
          /\ lastEmitted' = <<>>
          /\ ~lastThrew']_vars

\* C5 witness: stop() ran on a stopped engine that held a cache entry
C5_Witness ==
    lastOp = "stop" /\ lastOutcome = "stopped" /\ DOMAIN processMap # {}

\* C6: a key is analysed exactly once between its insertion into the dedup
\* cache and its removal, however many polls are in flight.
C6_AnalysedOncePerResidency == \A key \in DOMAIN processMap : analyses[key] = 1

\* C6 witness: a poll delivered a process whose key was already cached, and
\* analysed nothing, while another poll was still in flight
C6_Witness ==
    /\ lastOp = "complete"
    /\ lastBatch # <<>>
    /\ lastAnalysed = <<>>
    /\ \E c \in BagToSet(inflight) : c.context \in {"process-scan", "handle-monitor"}

C8_BoundedEntryAge ==
    isMonitoring
    => \A key \in DOMAIN processMap :
          now - processMap[key] <= maxProcessAge + CleanupPeriod

\* C9: a start call that fails after marking the engine running leaves it
\* stopped, with no timer of that call scheduled, no watch open, an empty
\* cache and an 'error' event emitted.
C9_FailedStartHalts ==
    [][(lastOp' = "start" /\ lastOutcome' = "failed")
       => /\ ~isMonitoring'
          /\ DOMAIN timers' \subseteq DOMAIN timers
          /\ OpenDirs(fileWatchers') = {}
          /\ DOMAIN processMap' = {}
          /\ \E i \in 1..Len(lastEmitted') : lastEmitted'[i].type = "error"]_vars

\* C10: a poll whose external call fails (the command errors, its output does
\* not parse, or the Recent folder cannot be read) emits no fileOpened event,
\* leaves cache, watcher set, timers and isMonitoring as they were, throws
\* nothing and so never reaches stop().
C10_FailedPollIsInert ==
    [][(\/ lastOp' = "complete" /\ lastOutcome' \in {"error", "garbage"}
        \/ lastOp' = "recentMonitor" /\ lastOutcome' = "unreadable")
       => /\ \A i \in 1..Len(lastEmitted') : lastEmitted'[i].type # "fileOpened"
          /\ UNCHANGED <<isMonitoring, processMap, fileWatchers, intervals, timers>>
          /\ ~lastThrew']_vars

\* C10 witness: the command of a poll failed on a running engine that holds
\* its timers, an open watch and a cache entry
C10_Witness ==
    /\ lastOp = "complete"
    /\ lastOutcome = "error"
    /\ isMonitoring
    /\ intervals # <<>>
    /\ OpenDirs(fileWatchers) # {}
    /\ DOMAIN processMap # {}

\* the interval timer that drives a strategy
TimerOf(context) ==
    IF context = "process-scan" THEN "processScanner" ELSE "handleMonitor"

C12_NoExceptionEscapes == ~lastThrew

\* C13: a stop() of a running engine, also one in which closing a handle
\* throws, returns normally with the engine stopped, the watcher set empty
\* and the dedup cache empty.
C13_CloseFailureContained ==
    (lastOp = "stop" /\ lastOutcome = "running")
    => /\ ~lastThrew
       /\ ~isMonitoring
       /\ fileWatchers = <<>>
       /\ DOMAIN processMap = {}

\* C14: a start during which the watch on one existing directory cannot be
\* registered completes normally with the engine running, the four timers of
\* the call scheduled and retained, and that directory absent from the
\* watcher set.
C14_WatchFailureSkipsDirectory ==
    (lastOp = "start" /\ Len(lastBatch) = 1)
    => /\ ~lastThrew
       /\ isMonitoring
       /\ Len(intervals) = 4
       /\ \A i \in 1..Len(intervals) : intervals[i] \in DOMAIN timers
       /\ lastBatch[1] \notin OpenDirs(fileWatchers)

\* the other process strategy
OtherScan(context) ==
    IF context = "process-scan" THEN "handle-monitor" ELSE "process-scan"

C16_OneEventPerNotification ==
    [][\A c \in BagToSet(inflight) :
         \A p \in procs :
           (/\ lastOp' = "complete"
            /\ c.context = "file-access"
            /\ inflight' = inflight (-) SetToBag({c})
            /\ lastOutcome' \in {"array", "object"}
            /\ lastBatch' = <<ToString(p.Id)>>
            /\ Contains(p.Title, c.fileName))
           => /\ Len(lastEmitted') = 1
              /\ lastEmitted'[1].type = "fileOpened"
              /\ lastEmitted'[1].source = "File System Monitor"
              /\ lastEmitted'[1].fileName = Join(c.fileName)
              /\ lastEmitted'[1].fullPath = c.filePath
              /\ c.fileName = FileReport => lastEmitted'[1].extension = ".pdf"]_vars

\* C17: for the command line "C:\Doc.docx" /p and the title
\* "Doc.docx - Microsoft Word", analyzeProcess reports exactly two events: one
\* from the command line whose full path is the quoted path, then one from the
\* title whose file name is Doc.docx and whose path is the unknown-path
\* sentinel.
C17_TwoEventsForQuotedDocx ==
    (lastOp = "complete" /\ procs = {ProcDoc} /\ Len(lastAnalysed) = 1)
    => /\ Len(lastEmitted) = 2
       /\ lastEmitted[1].source = "Process Analysis"
       /\ lastEmitted[1].fullPath = Join(Slice(CmdDoc, 2, 12))
       /\ lastEmitted[2].source = "Window Title Analysis"
       /\ lastEmitted[2].fileName = "Doc.docx"
       /\ lastEmitted[2].fullPath = "Unknown (from window title)"

\* the positions of the double quotes of s, in order
QuotePositions(s) ==
    LET IsQuote(i) == s[i] = "\""
    IN  SelectSeq([i \in 1..Len(s) |-> i], IsQuote)

\* s ends in .pdf, .doc or .docx, in any letter case
EndsInTarget(s) ==
    \E e \in {<<".", "p", "d", "f">>, <<".", "d", "o", "c">>, <<".", "d", "o", "c", "x">>} :
      LitAt(s, Len(s) - Len(e) + 1, e)

\* the double-quoted paths of a command line that end in a supported
\* extension: what stands between an opening quote and its closing quote
QuotedPaths(s) ==
    LET q == QuotePositions(s)
        segs == {Slice(s, q[2 * k - 1] + 1, q[2 * k] - 1) : k \in 1..(Len(q) \div 2)}
    IN  {seg \in segs : EndsInTarget(seg)}

\* C18: the list extractFilePaths returns for the command line of an analysed
\* process contains every double-quoted path of that command line that ends
\* in .pdf, .doc or .docx exactly once, and no string twice.
C18_QuotedPathListedOnce ==
    \A p \in procs :
      (lastOp = "complete" /\ Len(lastAnalysed) > 0)
      => LET paths == extractFilePaths(p.CommandLine)
         IN  /\ \A q \in QuotedPaths(p.CommandLine) : Count(paths, q) = 1
             /\ \A i, j \in 1..Len(paths) : paths[i] = paths[j] => i = j

RECURSIVE Split(_, _)
\* the maximal runs of s free of the characters of seps, in order
Split(s, seps) ==
    IF s = <<>> THEN <<>>
    ELSE LET n == RunLen(s, 1, seps)
         IN  IF n = 0 THEN Split(Tail(s), seps)
             ELSE <<SubSeq(s, 1, n)>> \o Split(Slice(s, n + 1, Len(s)), seps)

\* the name.ext substrings of a title: its words that end in a supported
\* extension after a non-empty name, in order of appearance
NameExtSubstrings(title) ==
    LET IsNameExt(w) == EndsInTarget(w) /\ w[1] # "."
    IN  SelectSeq(Split(title, WhiteSpace \cup {"\\", "/"}), IsNameExt)

\* C19: for the title of an analysed process extractFileNamesFromTitle returns
\* exactly its name.ext substrings with a supported extension, each as its
\* own element with its full extension, in order of appearance, and the empty
\* list when there is none.
C19_TitleNamesWithFullExtension ==
    \A p \in procs :
      (lastOp = "complete" /\ Len(lastAnalysed) > 0)
      => extractFileNamesFromTitle(p.Title) = NameExtSubstrings(p.Title)

\* the label the registry stores under the exact name, else under the name
\* followed by ".exe", else the name itself
RegistryLabel(name) ==
    IF name \in DOMAIN readerApps THEN readerApps[name]
    ELSE IF (name \o ".exe") \in DOMAIN readerApps THEN readerApps[name \o ".exe"]
    ELSE name

\* C20: the reader label of every event reported for a process is the
\* registry label of the process name (exact name, else name + ".exe", else
\* the name unchanged); "WINWORD.EXE" gives "Microsoft Word" and
\* "unknownapp.exe" gives "unknownapp.exe".
C20_ReaderLabelFromRegistry ==
    /\ getReaderName("WINWORD.EXE") = "Microsoft Word"
    /\ getReaderName("unknownapp.exe") = "unknownapp.exe"
    /\ \A i \in Emitted("fileOpened") :
         lastEmitted[i].source # "Recent Files Monitor"
         => lastEmitted[i].readerApplication = RegistryLabel(lastEmitted[i].processName)

\* C21: getStatus() changes no engine state and emits nothing, and its answer
\* is accurate: the running flag is isMonitoring, the cache size and watcher
\* count are the sizes of the dedup cache and the watcher set, and the
\* active-timer count is the number of interval timers actually scheduled,
\* four while running and zero while stopped.
C21_StatusIsAccurate ==
    [][lastOp' = "getStatus"
       => /\ UNCHANGED <<engineVars, loopVars>>
          /\ lastEmitted' = <<>>
          /\ getStatus'.isMonitoring = isMonitoring'
          /\ getStatus'.processCount = Cardinality(DOMAIN processMap')
          /\ getStatus'.watcherCount = Len(fileWatchers')
          /\ getStatus'.intervalCount = Cardinality(DOMAIN timers')
          /\ getStatus'.intervalCount = IF isMonitoring' THEN 4 ELSE 0]_vars

\* C22: every fileOpened event, of whatever strategy, has an extension field
\* that is one of ".pdf", ".doc", ".docx", also when the directory watch
\* reported a file whose name carries the extension in upper or mixed case.
C22_ExtensionIsSupported ==
    \A i \in Emitted("fileOpened") : lastEmitted[i].extension \in targetExtensions

\* C23: a start skips the candidate directories that do not exist silently:
\* afterwards the watcher set holds exactly one handle per existing candidate
\* directory whose watch could be registered, and no 'error' event names a
\* directory that does not exist.
C23_MissingDirectoriesSkipped ==
    [][\A existing \in SUBSET dirsOnDisk : \A failing \in SUBSET existing :
         StartStopped(FALSE, existing, failing, {})
         => /\ OpenDirs(fileWatchers') = existing \ failing
            /\ Len(fileWatchers') = Cardinality(existing \ failing)
            /\ \A i \in 1..Len(lastEmitted') : \A k \in 1..Len(WatchDirs) :
                 (/\ lastEmitted'[i].type = "error"
                  /\ lastEmitted'[i].message = "Error setting up watcher for " \o WatchDirs[k])
                 => WatchDirs[k] \in existing]_vars

\* C24: a recent-items poll that finds the recent-items folder missing is a
\* no-op: it emits nothing, starts no shortcut resolution, changes no state
\* and leaves the recent-items timer scheduled.
C24_MissingRecentFolderIsNoop ==
    [][(lastOp' = "recentMonitor" /\ lastOutcome' = "missing")
       => /\ UNCHANGED <<engineVars, configVars, errorListener, faultyListener, loopVars, now>>
          /\ lastEmitted' = <<>>
          /\ ~lastThrew'
          /\ \E id \in DOMAIN timers' : timers'[id].kind = "recentMonitor"]_vars

\* the running engine has just polled a missing recent-items folder
C24_Witness == lastOp = "recentMonitor" /\ lastOutcome = "missing" /\ isMonitoring

\* C25: a per-cycle transient failure (a failed or unparseable external
\* command of any strategy, an unreadable recent-items folder or shortcut
\* entry) never emits an 'error' event, delivered or thrown for want of a
\* listener.
C25_TransientFailuresOnlyLogged ==
    (\/ lastOp = "complete" /\ lastOutcome \in {"error", "garbage"}
     \/ lastOp = "recentMonitor")
    => Emitted("error") = {} /\ ~lastThrew

\* a command has just failed in a host that listens for 'error'
C25_Witness == lastOp = "complete" /\ lastOutcome = "error" /\ errorListener

\* C26: a scan whose command prints one record as a single JSON object is
\* handled like a batch of one: the record is analysed unless its key is
\* cached.
C26_SingleRecordIsBatchOfOne ==
    [][\A c \in BagToSet(inflight) : \A p \in Answer(c) :
         (/\ lastOp' = "complete"
          /\ lastOutcome' = "object"
          /\ inflight' = inflight (-) SetToBag({c})
          /\ c.context \in {"process-scan", "handle-monitor"}
          /\ procs = {p}
          /\ KeyOf(c.context, p) \notin DOMAIN processMap)
         => /\ KeyOf(c.context, p) \in DOMAIN processMap'
            /\ lastAnalysed' = <<KeyOf(c.context, p)>>]_vars

\* C27: the records of one batch are handled independently: after a scan
\* handled a batch, every record of the batch is in the cache, also when a
\* 'fileOpened' listener threw while another record's event was delivered.
C27_BatchRecordsIndependent ==
    (lastOp = "complete" /\ lastOutcome = "array")
    => \A i \in 1..Len(lastBatch) : lastBatch[i] \in DOMAIN processMap

\* C28: a process scan whose query ran hands a running allow-listed process
\* with a window title to analyzeProcess (unless it is cached) also when its
\* command line cannot be retrieved, and the supported file name in its title
\* yields a title-based event.
C28_TitleAnalysedWithoutCommandLine ==
    [][\A c \in BagToSet(inflight) : \A p \in procs :
         (/\ lastOp' = "complete"
          /\ lastOutcome' \notin {"error", "garbage"}
          /\ inflight' = inflight (-) SetToBag({c})
          /\ c.context = "process-scan"
          /\ procs = {p}
          /\ p.Name \in ScanAllowList /\ p.Title # <<>> /\ p.CommandLine = <<>>
          /\ ScanKey(p) \notin DOMAIN processMap)
         => /\ lastAnalysed' = <<ScanKey(p)>>
            /\ \E i \in 1..Len(lastEmitted') :
                 lastEmitted'[i].source = "Window Title Analysis"]_vars

\* the events of one source among those the last handler delivered
FromSource(source) == {i \in 1..Len(lastEmitted) : lastEmitted[i].source = source}

\* C29: one invocation of analyzeProcess emits at most two fileOpened events,
\* at most one from the command line and at most one from the window title.
C29_AtMostTwoEventsPerAnalysis ==
    (lastOp = "complete" /\ Len(lastAnalysed) = 1)
    => /\ Len(lastEmitted) <= 2
       /\ Cardinality(FromSource("Process Analysis")) <= 1
       /\ Cardinality(FromSource("Window Title Analysis")) <= 1

\* C30: the source of a command-line-based event names the strategy that
\* started the analysis: the process-analysis tag for the process scan, a
\* tag of its own for the handle scan.
C30_SourceNamesStrategy ==
    [][\A c \in BagToSet(inflight) :
         (lastOp' = "complete" /\ inflight' = inflight (-) SetToBag({c}))
         => \A i \in 1..Len(lastEmitted') :
              lastEmitted'[i].source # "Window Title Analysis"
              => (lastEmitted'[i].source = "Process Analysis") = (c.context = "process-scan")]_vars

\* C31: the directory-watch strategy neither reads nor modifies the dedup
\* cache: the confirmation query of a change notification on a supported file
\* leads to one event per process it returns, also when the scan key or the
\* handle key of that process is cached, and leaves the cache as it was; a
\* notification that is not a change, has no file name or names a file with
\* an unsupported extension starts no confirmation query and emits nothing.
C31_WatchBypassesCache ==
    [][/\ \A c \in BagToSet(inflight) :
            (/\ lastOp' = "complete"
             /\ c.context = "file-access"
             /\ inflight' = inflight (-) SetToBag({c})
             /\ lastOutcome' \in {"array", "object"})
            => /\ Len(lastEmitted') = Len(lastBatch')
               /\ \A i \in 1..Len(lastEmitted') :
                    /\ lastEmitted'[i].type = "fileOpened"
                    /\ lastEmitted'[i].processId = lastBatch'[i]
               /\ processMap' = processMap
       /\ \A dir \in OpenDirs(fileWatchers) \cup BagToSet(orphans) :
            \A eventType \in EventTypes : \A filename \in files \cup {<<>>} :
              (/\ WatchNotify(dir, eventType, filename)
               /\ \/ eventType # "change"
                  \/ filename = <<>>
                  \/ Join(ToLower(extname(filename))) \notin targetExtensions)
              => /\ pending' = pending
                 /\ inflight' = inflight
                 /\ processMap' = processMap
                 /\ lastEmitted' = <<>>]_vars

\* the shortcut resolutions a recent-items poll of `listing` starts: one per
\* entry named *.lnk whose stat succeeds and whose age is inside the window
ResolutionsOf(listing) ==
    SetToBag({[context |-> "recent-file", fileName |-> f.file, filePath |-> ""] :
              f \in {g \in listing : /\ EndsWithLnk(g.file)
                                     /\ ~g.statFails
                                     /\ g.age < RecentWindow}})

\* the resolution of a shortcut gave a target with a supported extension
ResolvedSupported(outcome) ==
    /\ outcome.kind = "object"
    /\ outcome.items[1] # <<>>
    /\ Join(ToLower(extname(outcome.items[1]))) \in targetExtensions

\* C32: the recent-items strategy emits an event only for a shortcut entry
\* (.lnk) whose modification time is inside the recency window at poll time
\* and whose resolved target has a supported extension; the event has reader
\* label "Recently Accessed", process name "System", process id "Recent" and
\* the recent-files source tag; an entry that is too old, unresolvable or
\* resolves to an unsupported target emits nothing.
C32_RecentEventOnlyForFreshSupportedShortcut ==
    [][/\ \A folder \in {"missing", "unreadable", "listed"} : \A listing \in Listings :
            (lastOp' = "recentMonitor" /\ isMonitoring /\ RecentPoll(folder, listing))
            => /\ lastEmitted' = <<>>
               /\ inflight' = inflight (+) (IF folder = "listed"
                                            THEN ResolutionsOf(listing)
                                            ELSE EmptyBag)
       /\ \A c \in BagToSet(inflight) : \A outcome \in Outcomes(c) :
            (c.context = "recent-file" /\ Complete(c, outcome))
            => IF ResolvedSupported(outcome)
               THEN /\ Len(lastEmitted') = 1
                    /\ lastEmitted'[1].type = "fileOpened"
                    /\ lastEmitted'[1].readerApplication = "Recently Accessed"
                    /\ lastEmitted'[1].processName = "System"
                    /\ lastEmitted'[1].processId = "Recent"
                    /\ lastEmitted'[1].source = "Recent Files Monitor"
                    /\ lastEmitted'[1].fullPath = Join(outcome.items[1])
                    /\ lastEmitted'[1].extension \in targetExtensions
               ELSE lastEmitted' = <<>>
       /\ \A i \in 1..Len(lastEmitted') :
            lastEmitted'[i].source = "Recent Files Monitor"
            => \E c \in BagToSet(inflight) :
                 /\ c.context = "recent-file"
                 /\ EndsWithLnk(c.fileName)
                 /\ inflight' = inflight (-) SetToBag({c})]_vars

\* the resolution of a fresh shortcut has just reported its target
C32_Witness ==
    /\ lastOp = "complete"
    /\ Len(lastEmitted) = 1
    /\ lastEmitted[1].source = "Recent Files Monitor"
    /\ lastEmitted[1].fullPath = Join(TargetReport)

\* C33: a run of cleanupOldProcesses removes exactly the cache entries whose
\* age (now minus insertion time) is strictly greater than maxProcessAge and
\* leaves every other entry with its original timestamp; it emits no event
\* and touches neither timers nor watchers; and an entry leaves the cache
\* only in a cleanup run or in stop().
C33_CleanupRemovesExactlyTheExpired ==
    [][/\ (lastOp' = "cleanupInterval" /\ isMonitoring)
          => /\ \A key \in DOMAIN processMap :
                  (key \in DOMAIN processMap') = ~(now - processMap[key] > maxProcessAge)
             /\ \A key \in DOMAIN processMap' :
                  key \in DOMAIN processMap /\ processMap'[key] = processMap[key]
             /\ lastEmitted' = <<>>
             /\ ~lastThrew'
             /\ UNCHANGED <<isMonitoring, fileWatchers, intervals, orphans>>
             /\ DOMAIN timers' = DOMAIN timers
             /\ \A id \in DOMAIN timers : timers'[id].kind = timers[id].kind
       /\ \A key \in DOMAIN processMap \ DOMAIN processMap' :
            \/ lastOp' = "cleanupInterval" /\ now - processMap[key] > maxProcessAge
            \/ lastOp' = "stop" /\ isMonitoring
            \/ lastOp' = "start" /\ lastOutcome' = "failed" /\ errorListener]_vars

\* a cleanup run has just removed an entry and kept a younger one
C33_Witness ==
    /\ lastOp = "cleanupInterval"
    /\ isMonitoring
    /\ DOMAIN processMap # {}
    /\ \E key \in DOMAIN analysedAt : key \notin DOMAIN processMap

\* the commands of the three polling strategies among those in flight
PollsIn(bag) ==
    {c \in BagToSet(bag) : c.context \in {"process-scan", "handle-monitor", "recent-file"}}

\* C34: the completion of an external call after stop() creates no interval
\* timer and opens no directory watch: a stop() that returns leaves no
\* interval timer scheduled and an empty watcher set, and until the next
\* start call no handler schedules a timer, opens a watch or starts a poll.
C34_NothingResurrectedAfterStop ==
    [][/\ (lastOp' = "stop" /\ isMonitoring /\ ~lastThrew')
          => /\ Cardinality(DOMAIN timers') = 0
             /\ Len(fileWatchers') = 0
       /\ (~isMonitoring /\ lastOp' # "start")
          => /\ DOMAIN timers' \subseteq DOMAIN timers
             /\ Len(fileWatchers') <= Len(fileWatchers)
             /\ OpenDirs(fileWatchers') \subseteq OpenDirs(fileWatchers)
             /\ orphans' = orphans
             /\ \A c \in PollsIn(inflight') :
                  CopiesIn(c, inflight') <= CopiesIn(c, inflight)]_vars

\* C35: a restart begins with fresh dedup state: once stop() and then
\* startAdvancedMonitoring() have run, the first process scan that returns a
\* process analysed before the stop analyses it again, whatever the order of
\* stop, start and the completions of the calls in flight at the stop.
C35_RestartAnalysesAgain ==
    [][\A c \in BagToSet(inflight) :
         (/\ lastOp' = "complete"
          /\ isMonitoring
          /\ c.context = "process-scan"
          /\ inflight' = inflight (-) SetToBag({c}))
         => \A i \in 1..Len(lastBatch') :
              lastBatch'[i] \in due => Includes(lastAnalysed', lastBatch'[i])]_vars

\* the command that resolves the shortcut named file
Resolution(file) == [context |-> "recent-file", fileName |-> file, filePath |-> ""]

\* C36: the recent-items strategy keeps no memory of what it reported: every
\* poll that finds a shortcut inside the recency window starts a resolution
\* of it, also when earlier polls started one, and every resolution that
\* gives a supported target reports one fileOpened event, so that k polls
\* give k resolutions and k events; neither step reads or writes the cache.
C36_RecentStrategyHasNoMemory ==
    [][/\ \A listing \in Listings :
            (lastOp' = "recentMonitor" /\ isMonitoring /\ RecentPoll("listed", listing))
            => /\ \A f \in listing :
                    (EndsWithLnk(f.file) /\ ~f.statFails /\ f.age < RecentWindow)
                    => CopiesIn(Resolution(f.file), inflight')
                         = CopiesIn(Resolution(f.file), inflight) + 1
               /\ processMap' = processMap
       /\ \A c \in BagToSet(inflight) : \A outcome \in Outcomes(c) :
            (c.context = "recent-file" /\ Complete(c, outcome))
            => /\ processMap' = processMap
               /\ CopiesIn(c, inflight') = CopiesIn(c, inflight) - 1
               /\ ResolvedSupported(outcome)
                  => Cardinality({i \in 1..Len(lastEmitted') :
                                    lastEmitted'[i].type = "fileOpened"}) = 1]_vars

\* a second resolution of the shortcut has just reported its target, after
\* the scans had filled the cache
C36_Witness ==
    /\ lastOp = "complete"
    /\ Len(lastEmitted) = 1
    /\ lastEmitted[1].source = "Recent Files Monitor"
    /\ DOMAIN processMap # {}
    /\ CopiesIn(Resolution(LnkReport), inflight) = 1

\* the scheduled timers of the older monitor that poll for one strategy
OldTimersOf(kind) == {h \in DOMAIN oldTimers : oldTimers[h] = kind}

\* C37: in the older FileAccessMonitor of main.js at most one interval timer
\* per strategy is scheduled at any time, and every timer that is scheduled
\* when the monitor has been stopped is eventually cleared, for every
\* sequence of startAdvancedMonitoring() and stop() calls.
C37_OldTimersBoundedAndCleared ==
    /\ [](\A k \in 1..Len(OldKinds) : Cardinality(OldTimersOf(OldKinds[k])) <= 1)
    /\ \A h \in 1..MaxHandles :
         (~oldIsMonitoring /\ h \in DOMAIN oldTimers) ~> (h \notin DOMAIN oldTimers)

\* the number of documents sent whose response is awaited
Posts(calls) ==
    BagCardinality([c \in {d \in BagToSet(calls) : d.awaiting = "post"} |-> CopiesIn(c, calls)])

\* C38: processFile sends a document to the summary service only when the
\* extension is supported, the file exists, its size is at most 50 MB and the
\* health flag is true at the moment of sending, after a re-check when the
\* call found it false; in every other case no request is sent; and a
\* refused connection sets the flag to false, so that the next call
\* re-checks health before it sends.
C38_SendsOnlyCheckedDocuments ==
    [][/\ Posts(appCalls') > Posts(appCalls)
          => /\ Posts(appCalls') = Posts(appCalls) + 1
             /\ Join(ToLower(extname(appLast'.file.path))) \in {".pdf", ".doc", ".docx"}
             /\ appLast'.file.exists
             /\ appLast'.file.size <= 50 * 1024 * 1024
             /\ isAPIHealthy'
             /\ \/ appLast'.op = "processFile" /\ isAPIHealthy
                \/ /\ appLast'.op = "healthResponse"
                   /\ AppCall("processFile", "health", appLast'.file) \in BagToSet(appCalls)
       /\ (appLast'.op = "postResponse" /\ appLast'.outcome = "ECONNREFUSED")
          => ~isAPIHealthy'
       /\ (appLast'.op = "processFile" /\ ~isAPIHealthy)
          => /\ Posts(appCalls') = Posts(appCalls)
             /\ (/\ Join(ToLower(extname(appLast'.file.path))) \in {".pdf", ".doc", ".docx"}
                 /\ appLast'.file.exists
                 /\ appLast'.file.size <= 50 * 1024 * 1024
                 /\ appLast'.outcome # "statFailed")
                => CopiesIn(AppCall("processFile", "health", appLast'.file), appCalls')
                     = CopiesIn(AppCall("processFile", "health", appLast'.file), appCalls) + 1]_vars

\* a document of exactly 50 MB has just been sent after a health re-check
C38_Witness ==
    /\ appLast.op = "healthResponse"
    /\ appLast.outcome = "post"
    /\ appLast.file.size = MaxUploadSize
    /\ isAPIHealthy

\* C39: for maxFiles of at least 2, after any sequence of log writes and
\* rotations the rotated copies of a log file carry only indices 1 to
\* maxFiles - 1, so that at most maxFiles files exist per log name; the copy
\* of index 1 is the most recently rotated one and a copy of a higher index
\* is older than a copy of a lower index.
C39_RotatedCopiesOrdered ==
    maxFiles >= 2
    => /\ DOMAIN rotated \subseteq 1..(maxFiles - 1)
       /\ Cardinality(DOMAIN rotated) + (IF logLines > 0 THEN 1 ELSE 0) <= maxFiles
       /\ 1 \in DOMAIN rotated => \A j \in DOMAIN rotated : rotated[1] >= rotated[j]
       /\ \A i, j \in DOMAIN rotated : i < j => rotated[i] > rotated[j]

\* with maxFiles = 3 both indices are taken and the oldest copy was deleted
C39_Witness ==
    /\ maxFiles = 3
    /\ DOMAIN rotated = {1, 2}
    /\ rotations >= 3
    /\ logLastOp = "rotated"

====
